---- MODULE Spec2Model ----
(***************************************************************************)
(* Model of the three-phase integration mapper                             *)
(* (src/src/integration_mapper/mapper.py).                                 *)
(*                                                                         *)
(* A string that may hold dots is the sequence of its segments, as         *)
(* split(".") returns them: "a.f" is <<"a","f">>, ".C" is <<"","C">> and   *)
(* the empty string is <<"">>.  ".".join is concatenation, split(".")[0]   *)
(* is the first segment.  A file path is a sequence of tokens: its         *)
(* directories and the stem of the file name, "/" between them and the     *)
(* suffix ".py" at the end.                                                *)
(* Dictionaries are functions; the symbol table also carries the order in  *)
(* which its keys were inserted.                                           *)
(***************************************************************************)
EXTENDS Integers, Sequences, FiniteSets, TLC

\* Longest file list handed to one run.
MaxFiles == 3

None == "<None>"

\* The empty string.
EmptyStr == <<"">>

----------------------------------------------------------------------------
(* Syntax trees, as ast.parse returns them.                                *)

Name(id) == [k |-> "Name", id |-> id]
Attribute(value, attr, ctx) ==
    [k |-> "Attribute", value |-> value, attr |-> attr, ctx |-> ctx]
Call(func, args) == [k |-> "Call", func |-> func, args |-> args]
Subscript(value) == [k |-> "Subscript", value |-> value]
Constant(value) == [k |-> "Constant", value |-> value]

Alias(name, asname) == [name |-> name, asname |-> asname]
Import(names, line) == [k |-> "Import", names |-> names, line |-> line]
ImportFrom(module, names, line) ==
    [k |-> "ImportFrom", module |-> module, names |-> names, line |-> line]
ClassDef(name, bases, body, line, end) ==
    [k |-> "ClassDef", name |-> name, bases |-> bases, body |-> body,
     line |-> line, end_lineno |-> end]
FunctionDef(name, params, body, line, end) ==
    [k |-> "FunctionDef", name |-> name, params |-> params, body |-> body,
     line |-> line, end_lineno |-> end]
Expr(value, line) == [k |-> "Expr", value |-> value, line |-> line]
Assign(target, value, line) ==
    [k |-> "Assign", target |-> target, value |-> value, line |-> line]
Pass(line) == [k |-> "Pass", line |-> line]

----------------------------------------------------------------------------
(* Dictionaries.                                                           *)

EmptyDict == << >>

DictSet(d, key, v) ==
    [x \in DOMAIN d \cup {key} |-> IF x = key THEN v ELSE d[x]]

DictUpdate(d, e) ==
    [x \in DOMAIN d \cup DOMAIN e |-> IF x \in DOMAIN e THEN e[x] ELSE d[x]]

DictGet(d, key, default) == IF key \in DOMAIN d THEN d[key] ELSE default

\* The value of e once v has its value: the steps of a loop are evaluated
\* in the order the interpreter runs them.
After(v, e) == IF v = v THEN e ELSE e

\* A loop over a list is written as the loop over its first half followed
\* by the loop over the rest.
FirstHalf(s) == SubSeq(s, 1, Len(s) \div 2)

SecondHalf(s) == SubSeq(s, Len(s) \div 2 + 1, Len(s))

\* Keys of e that d lacks, in e's order, appended to d's order.
RECURSIVE OrderUpdate(_, _)
OrderUpdate(order, eorder) ==
    IF eorder = << >> THEN order
    ELSE OrderUpdate(IF \E j \in 1..Len(order) : order[j] = Head(eorder)
                     THEN order ELSE Append(order, Head(eorder)),
                     Tail(eorder))

Last(s) == s[Len(s)]
Front(s) == SubSeq(s, 1, Len(s) - 1)

\* ".".join(stack) for a stack of dotted strings.
RECURSIVE Join(_)
Join(stack) ==
    IF stack = << >> THEN EmptyStr
    ELSE IF Len(stack) = 1 THEN Head(stack)
    ELSE Head(stack) \o Join(Tail(stack))

----------------------------------------------------------------------------
(* Phase 1: HierarchyBuilder.                                              *)

\* str.replace("/", ".").replace(".py", ""), then read as a dotted string.
ModuleFqn(path) == SelectSeq(path, LAMBDA t : t \notin {"/", ".py"})

HierarchyBuilder(path) ==
    [symbol_table |-> EmptyDict, order |-> << >>, tree |-> EmptyDict,
     scope_stack |-> << >>, current_module |-> path, err |-> FALSE]

\* ast.get_docstring: the leading string-literal statement of the body.
get_docstring(node) ==
    IF node.body # << >> /\ Head(node.body).k = "Expr"
       /\ Head(node.body).value.k = "Constant"
    THEN Head(node.body).value.value
    ELSE None

register_node(st, node_type, name, node, parent_fqn, extra) ==
    LET fqn == IF parent_fqn # EmptyStr THEN parent_fqn \o name ELSE name
        line_range == IF node_type = "module" THEN <<1, 1>>
                      ELSE <<node.line, node.end_lineno>>
        entry == [type |-> node_type, fqn |-> fqn, name |-> name,
                  line_range |-> line_range, path |-> st.current_module,
                  docstring |-> get_docstring(node),
                  children |-> EmptyDict, imports |-> << >>]
    IN [st EXCEPT !.symbol_table = DictSet(@, fqn, extra @@ entry),
                  !.order = OrderUpdate(@, <<fqn>>)]

RegisteredFqn(name, parent_fqn) ==
    IF parent_fqn # EmptyStr THEN parent_fqn \o name ELSE name

SetChild(table, parent, field, name, fqn) ==
    [table EXCEPT ![parent] =
        [@ EXCEPT ![field] = DictSet(@, name, fqn)]]

\* _extract_attribute_fqn: the attribute names from the outside in, then the
\* root name if the chain starts at a Name, reversed and joined.
RECURSIVE AttrParts(_)
AttrParts(node) ==
    IF node.k = "Attribute" THEN <<node.attr>> \o AttrParts(node.value)
    ELSE IF node.k = "Name" THEN <<node.id>>
    ELSE << >>

Reversed(s) == [j \in 1..Len(s) |-> s[Len(s) + 1 - j]]

_extract_attribute_fqn(node) ==
    IF AttrParts(node) = << >> THEN EmptyStr ELSE Reversed(AttrParts(node))

\* bases recorded by HierarchyBuilder.visit_ClassDef: raw names.
RECURSIVE RawBases(_)
RawBases(bases) ==
    IF bases = << >> THEN << >>
    ELSE LET b == Head(bases)
         IN (IF b.k = "Name" THEN <<(<<b.id>>)>>
             ELSE IF b.k = "Attribute" THEN <<_extract_attribute_fqn(b)>>
             ELSE << >>) \o RawBases(Tail(bases))

RECURSIVE HVisitBody(_, _)
RECURSIVE HVisit(_, _)

h_visit_ClassDef(node, st) ==
    LET parent_fqn == Join(st.scope_stack)
        class_fqn == RegisteredFqn(<<node.name>>, parent_fqn)
        bases == RawBases(node.bases)
        st1 == register_node(st, "class", <<node.name>>, node, parent_fqn,
                   [bases |-> bases, methods |-> EmptyDict,
                    attributes |-> EmptyDict])
        st2 == IF parent_fqn \in DOMAIN st1.symbol_table
               THEN [st1 EXCEPT !.symbol_table =
                        SetChild(@, parent_fqn, "children", node.name,
                                 class_fqn)]
               ELSE st1
        st3 == [st2 EXCEPT !.scope_stack = Append(@, <<node.name>>)]
        st4 == HVisitBody(node.body, st3)
    IN [st4 EXCEPT !.scope_stack = Front(@)]

h_visit_FunctionDef(node, st) ==
    LET parent_fqn == Join(st.scope_stack)
        func_fqn == RegisteredFqn(<<node.name>>, parent_fqn)
        st1 == register_node(st, "function", <<node.name>>, node, parent_fqn,
                   [parameters |-> node.params, return_type |-> None,
                    calls |-> << >>, reads_attributes |-> << >>,
                    writes_attributes |-> << >>])
        parent_class_fqn == Last(st.scope_stack)
        st2 ==
          IF parent_fqn \in DOMAIN st1.symbol_table
          THEN IF Len(st.scope_stack) >= 2
                  /\ Last(st.scope_stack) # st.current_module
               THEN IF parent_class_fqn \in DOMAIN st1.symbol_table
                    THEN IF "methods" \in
                              DOMAIN st1.symbol_table[parent_class_fqn]
                         THEN [st1 EXCEPT !.symbol_table =
                                 SetChild(@, parent_class_fqn, "methods",
                                          node.name, func_fqn)]
                         ELSE [st1 EXCEPT !.err = TRUE]   \* KeyError
                    ELSE st1
               ELSE [st1 EXCEPT !.symbol_table =
                        SetChild(@, parent_fqn, "children", node.name,
                                 func_fqn)]
          ELSE st1
    IN IF st2.err THEN st2 ELSE HVisitBody(node.body, st2)

HVisit(node, st) ==
    IF node.k = "ClassDef" THEN h_visit_ClassDef(node, st)
    ELSE IF node.k = "FunctionDef" THEN h_visit_FunctionDef(node, st)
    ELSE st

HVisitBody(body, st) ==
    IF body = << >> \/ st.err THEN st
    ELSE LET st1 == HVisit(Head(body), st)
         IN After(st1, HVisitBody(Tail(body), st1))

\* The nested dictionary built for one module, flattened: every proper
\* prefix of the module FQN is a package node, the FQN itself the module.
ModuleTree(module_fqn) ==
    [p \in {SubSeq(module_fqn, 1, n) : n \in 1..Len(module_fqn)} |->
        IF p = module_fqn THEN "module" ELSE "package"]

h_visit_Module(file, st) ==
    LET module_fqn == ModuleFqn(st.current_module)
        st1 == register_node(st, "module", module_fqn, file, EmptyStr,
                             EmptyDict)
        st2 == [st1 EXCEPT !.scope_stack = <<module_fqn>>,
                           !.tree = DictSet(@, Head(module_fqn),
                                            ModuleTree(module_fqn))]
    IN HVisitBody(file.body, st2)

----------------------------------------------------------------------------
(* Phase 2: IntegrationExtractor.                                          *)

DynamicCall == <<"<dynamic_call>">>

IntegrationExtractor(symbol_table, path) ==
    [symbol_table |-> symbol_table, scope_stack |-> << >>,
     current_module |-> path, alias_map |-> EmptyDict,
     integration_edges |-> << >>, call_graph |-> EmptyDict]

get_current_fqn(st) == Join(st.scope_stack)

_resolve_call_target(func, alias_map) ==
    IF func.k = "Name" THEN DictGet(alias_map, <<func.id>>, <<func.id>>)
    ELSE IF func.k = "Attribute" THEN _extract_attribute_fqn(func)
    ELSE DynamicCall

\* ast.unparse: the source text of an expression, as a token sequence.
RECURSIVE Unparse(_)
RECURSIVE UnparseArgs(_)
Unparse(e) ==
    IF e.k = "Name" THEN <<e.id>>
    ELSE IF e.k = "Attribute" THEN Unparse(e.value) \o <<".", e.attr>>
    ELSE IF e.k = "Call" THEN Unparse(e.func) \o <<"(">> \o UnparseArgs(e.args)
                              \o <<")">>
    ELSE IF e.k = "Constant" THEN <<"'", e.value, "'">>
    ELSE Unparse(e.value) \o <<"[0]">>
UnparseArgs(args) ==
    IF args = << >> THEN << >>
    ELSE Unparse(Head(args))
         \o (IF Len(args) > 1 THEN <<",">> ELSE << >>)
         \o UnparseArgs(Tail(args))

Emit(st, edge) ==
    [st EXCEPT !.integration_edges = Append(@, edge)]

RECURSIVE EVisitExpr(_, _, _)
RECURSIVE EVisitExprs(_, _, _)

visit_Call(node, st, line) ==
    LET target_fqn == _resolve_call_target(node.func, st.alias_map)
        args == [j \in 1..Len(node.args) |->
                    [type |-> "positional", value |-> Unparse(node.args[j])]]
        edge == [type |-> "call", source |-> get_current_fqn(st),
                 target |-> target_fqn, target_fqn |-> target_fqn,
                 line |-> line, args |-> args,
                 integration_type |-> "function_call"]
        st1 == Emit(st, edge)
        st2 == [st1 EXCEPT !.call_graph =
                   DictSet(@, target_fqn,
                           Append(DictGet(@, target_fqn, << >>),
                                  get_current_fqn(st)))]
    IN EVisitExprs(<<node.func>> \o node.args, st2, line)

visit_Attribute(node, st, line) ==
    LET is_write == node.ctx = "Store"
        fqn == _extract_attribute_fqn(node)
        edge == [type |-> "attribute", source |-> get_current_fqn(st),
                 target |-> fqn,
                 access |-> IF is_write THEN "write" ELSE "read",
                 line |-> line, integration_type |-> "attribute_access"]
    IN EVisitExpr(node.value, Emit(st, edge), line)

EVisitExpr(e, st, line) ==
    IF e.k = "Call" THEN visit_Call(e, st, line)
    ELSE IF e.k = "Attribute" THEN visit_Attribute(e, st, line)
    ELSE IF e.k = "Subscript" THEN EVisitExpr(e.value, st, line)
    ELSE st

EVisitExprs(es, st, line) ==
    IF es = << >> THEN st
    ELSE LET st1 == EVisitExpr(Head(es), st, line)
         IN After(st1, EVisitExprs(Tail(es), st1, line))

\* visit_Import, one alias at a time.
RECURSIVE ImportNames(_, _, _)
ImportNames(names, st, line) ==
    IF names = << >> THEN st
    ELSE LET alias == Head(names)
             module_name == alias.name
             as_name == IF alias.asname # None THEN <<alias.asname>>
                        ELSE alias.name
             edge == [type |-> "import", source |-> get_current_fqn(st),
                      target |-> module_name, items |-> <<as_name>>,
                      line |-> line, integration_type |-> "import_module"]
             st1 == [st EXCEPT !.alias_map = DictSet(@, as_name, module_name)]
         IN ImportNames(Tail(names), Emit(st1, edge), line)

visit_Import(node, st) == ImportNames(node.names, st, node.line)

RECURSIVE ImportFromAliases(_, _, _)
ImportFromAliases(names, module, alias_map) ==
    IF names = << >> THEN alias_map
    ELSE LET alias == Head(names)
             as_name == IF alias.asname # None THEN <<alias.asname>>
                        ELSE alias.name
         IN ImportFromAliases(Tail(names), module,
                DictSet(alias_map, as_name, module \o alias.name))

visit_ImportFrom(node, st) ==
    IF node.module = None THEN st
    ELSE LET items == [j \in 1..Len(node.names) |-> node.names[j].name]
             edge == [type |-> "import", source |-> get_current_fqn(st),
                      target |-> node.module, items |-> items,
                      line |-> node.line, integration_type |-> "import_from"]
             st1 == [st EXCEPT !.alias_map =
                        ImportFromAliases(node.names, node.module, @)]
         IN Emit(st1, edge)

\* Base names of the inheritance edge: simple names through the alias map,
\* attribute chains flattened, anything else left out.
RECURSIVE ResolvedBases(_, _)
ResolvedBases(bases, alias_map) ==
    IF bases = << >> THEN << >>
    ELSE LET b == Head(bases)
         IN (IF b.k = "Name"
             THEN <<DictGet(alias_map, <<b.id>>, <<b.id>>)>>
             ELSE IF b.k = "Attribute" THEN <<_extract_attribute_fqn(b)>>
             ELSE << >>) \o ResolvedBases(Tail(bases), alias_map)

RECURSIVE EVisitBody(_, _)
RECURSIVE EVisit(_, _)

e_visit_ClassDef(node, st) ==
    LET class_fqn == get_current_fqn(st) \o <<node.name>>
        bases == ResolvedBases(node.bases, st.alias_map)
        edge == [type |-> "inheritance", source |-> class_fqn,
                 targets |-> bases, line |-> node.line,
                 integration_type |-> "inheritance"]
        st1 == IF bases # << >> THEN Emit(st, edge) ELSE st
        st2 == [st1 EXCEPT !.scope_stack = Append(@, <<node.name>>)]
        st3 == EVisitBody(node.body, EVisitExprs(node.bases, st2, node.line))
    IN [st3 EXCEPT !.scope_stack = Front(@)]

\* IntegrationExtractor has no visit_FunctionDef: generic_visit walks the
\* body in the scope of the enclosing class or module.
e_generic_FunctionDef(node, st) == EVisitBody(node.body, st)

EVisit(node, st) ==
    IF node.k = "Import" THEN visit_Import(node, st)
    ELSE IF node.k = "ImportFrom" THEN visit_ImportFrom(node, st)
    ELSE IF node.k = "ClassDef" THEN e_visit_ClassDef(node, st)
    ELSE IF node.k = "FunctionDef" THEN e_generic_FunctionDef(node, st)
    ELSE IF node.k = "Expr" THEN EVisitExpr(node.value, st, node.line)
    ELSE IF node.k = "Assign"
         THEN EVisitExprs(<<node.target, node.value>>, st, node.line)
    ELSE st

EVisitBody(body, st) ==
    IF body = << >> THEN st
    ELSE LET st1 == EVisit(Head(body), st)
         IN After(st1, EVisitBody(Tail(body), st1))

e_visit_Module(file, st) ==
    LET module_fqn == ModuleFqn(st.current_module)
    IN EVisitBody(file.body,
                  [st EXCEPT !.scope_stack = <<module_fqn>>,
                             !.alias_map = EmptyDict])

----------------------------------------------------------------------------
(* Phase 3: FlowAnalyzer.                                                  *)

CrossroadMin == 3
CriticalityHigh == 10
TopPaths == 5
CallCountMin == 2
ComplexityHigh == 5

\* The names of the corpus in the order Python compares strings.
NameOrder ==
    <<"", "<dynamic_call>", "B", "C", "D", "E", "F", "K", "L", "Meta", "V",
      "W", "X", "Y", "Z", "a", "b", "c", "d",
      "f", "f1", "f2", "g", "h", "helper", "k", "m", "n", "p", "q", "run",
      "self", "u", "v", "x", "y">>

Rank(name) == CHOOSE j \in 1..Len(NameOrder) : NameOrder[j] = name

\* tuple(sorted([a, b]))
SortedPair(a, b) == IF Rank(a) <= Rank(b) THEN <<a, b>> ELSE <<b, a>>

\* An insertion-ordered dictionary is a sequence of [key, val] records.
HasKey(od, key) == \E j \in 1..Len(od) : od[j].key = key

\* od[key] = v, keeping the position of a key the dictionary has.
OrderedSet(od, key, v) ==
    IF HasKey(od, key)
    THEN [j \in 1..Len(od) |->
             IF od[j].key = key THEN [key |-> key, val |-> v] ELSE od[j]]
    ELSE Append(od, [key |-> key, val |-> v])

\* od[key] of a defaultdict.
OrderedGet(od, key, default) ==
    IF HasKey(od, key)
    THEN od[CHOOSE j \in 1..Len(od) : od[j].key = key].val
    ELSE default

\* od[key] += 1 on a defaultdict(int).
Increment(od, key) == OrderedSet(od, key, OrderedGet(od, key, 0) + 1)

\* sorted(items, key=value, reverse=True): stable, descending.
\* Variant: an item goes before the items of equal value.
RECURSIVE InsertDesc_Unstable(_, _)
InsertDesc_Unstable(sorted, x) ==
    IF sorted = << >> THEN <<x>>
    ELSE IF Head(sorted).val > x.val
         THEN <<Head(sorted)>> \o InsertDesc_Unstable(Tail(sorted), x)
         ELSE <<x>> \o sorted

RECURSIVE InsertDesc(_, _)
InsertDesc(sorted, x) ==
    IF sorted = << >> THEN <<x>>
    ELSE IF Head(sorted).val >= x.val
         THEN <<Head(sorted)>> \o InsertDesc(Tail(sorted), x)
         ELSE <<x>> \o sorted

RECURSIVE SortedDesc(_)
SortedDesc(od) ==
    IF od = << >> THEN << >>
    ELSE InsertDesc(SortedDesc(Front(od)), Last(od))

EdgeGet(edge, field) == IF field \in DOMAIN edge THEN edge[field] ELSE EmptyStr

TopSegment(fqn) == IF fqn # EmptyStr THEN Head(fqn) ELSE ""

\* The loop of _detect_crossroads over the edges.
RECURSIVE ModuleInteractions(_, _)
ModuleInteractions(edges, acc) ==
    IF edges = << >> THEN acc
    ELSE IF Len(edges) = 1
    THEN LET edge == Head(edges)
             source_module == TopSegment(EdgeGet(edge, "source"))
             target_module == TopSegment(EdgeGet(edge, "target"))
         IN IF source_module # "" /\ target_module # ""
               /\ source_module # target_module
            THEN Increment(acc, SortedPair(source_module, target_module))
            ELSE acc
    ELSE LET acc1 == ModuleInteractions(FirstHalf(edges), acc)
         IN After(acc1, ModuleInteractions(SecondHalf(edges), acc1))

\* Variant: a count of 10 already rates "high".
Crossroad_HighAt10(item) ==
    [id |-> <<item.key[1], "_", item.key[2], "_junction">>,
     components |-> item.key,
     integration_count |-> item.val,
     criticality |-> IF item.val >= CriticalityHigh THEN "high" ELSE "medium"]

Crossroad(item) ==
    [id |-> <<item.key[1], "_", item.key[2], "_junction">>,
     components |-> item.key,
     integration_count |-> item.val,
     criticality |-> IF item.val > CriticalityHigh THEN "high" ELSE "medium"]

\* Variant: a pair must exceed the threshold to be kept.
_detect_crossroads_Strict(edges) ==
    LET ranked == SortedDesc(ModuleInteractions(edges, << >>))
        kept == SelectSeq(ranked, LAMBDA item : item.val > CrossroadMin)
    IN [j \in 1..Len(kept) |-> Crossroad(kept[j])]

_detect_crossroads(edges) ==
    LET ranked == SortedDesc(ModuleInteractions(edges, << >>))
        kept == SelectSeq(ranked, LAMBDA item : item.val >= CrossroadMin)
    IN [j \in 1..Len(kept) |-> Crossroad(kept[j])]

\* call_counts of _identify_critical_paths: one count per caller entry.
RECURSIVE CountCallers(_, _)
CountCallers(callers, acc) ==
    IF callers = << >> THEN acc
    ELSE IF Len(callers) = 1 THEN Increment(acc, Head(callers))
    ELSE LET acc1 == CountCallers(FirstHalf(callers), acc)
         IN After(acc1, CountCallers(SecondHalf(callers), acc1))

RECURSIVE CallCounts(_, _)
CallCounts(call_graph, acc) ==
    IF call_graph = << >> THEN acc
    ELSE IF Len(call_graph) = 1
    THEN CountCallers(Head(call_graph).val, acc)
    ELSE LET acc1 == CallCounts(FirstHalf(call_graph), acc)
         IN After(acc1, CallCounts(SecondHalf(call_graph), acc1))

CriticalPath(item) ==
    [id |-> <<"path_">> \o item.key,
     entry_point |-> item.key,
     call_count |-> item.val,
     complexity |-> IF item.val > ComplexityHigh THEN "high" ELSE "medium"]

\* Variant: the ranking is not cut.
_identify_critical_paths_NoCut(call_graph) ==
    LET ranked == SortedDesc(CallCounts(call_graph, << >>))
        kept == SelectSeq(ranked, LAMBDA item : item.val >= CallCountMin)
    IN [j \in 1..Len(kept) |-> CriticalPath(kept[j])]

_identify_critical_paths(call_graph) ==
    LET ranked == SortedDesc(CallCounts(call_graph, << >>))
        top == SubSeq(ranked, 1, IF Len(ranked) < TopPaths THEN Len(ranked)
                                 ELSE TopPaths)
        kept == SelectSeq(top, LAMBDA item : item.val >= CallCountMin)
    IN [j \in 1..Len(kept) |-> CriticalPath(kept[j])]

\* Variant: a caller is recorded once per callee.
RECURSIVE BuildCallGraph_Dedup(_, _)
BuildCallGraph_Dedup(edges, acc) ==
    IF edges = << >> THEN acc
    ELSE IF Len(edges) = 1
    THEN LET edge == Head(edges)
             callers == OrderedGet(acc, EdgeGet(edge, "target"), << >>)
         IN IF EdgeGet(edge, "type") = "call"
            THEN OrderedSet(acc, EdgeGet(edge, "target"),
                     IF \E j \in 1..Len(callers) :
                           callers[j] = EdgeGet(edge, "source")
                     THEN callers
                     ELSE Append(callers, EdgeGet(edge, "source")))
            ELSE acc
    ELSE LET acc1 == BuildCallGraph_Dedup(FirstHalf(edges), acc)
         IN After(acc1, BuildCallGraph_Dedup(SecondHalf(edges), acc1))

\* The call graph phase3_analyze_flows builds from the call edges.
RECURSIVE BuildCallGraph(_, _)
BuildCallGraph(edges, acc) ==
    IF edges = << >> THEN acc
    ELSE IF Len(edges) = 1
    THEN LET edge == Head(edges)
         IN IF EdgeGet(edge, "type") = "call"
            THEN OrderedSet(acc, EdgeGet(edge, "target"),
                     Append(OrderedGet(acc, EdgeGet(edge, "target"), << >>),
                            EdgeGet(edge, "source")))
            ELSE acc
    ELSE LET acc1 == BuildCallGraph(FirstHalf(edges), acc)
         IN After(acc1, BuildCallGraph(SecondHalf(edges), acc1))

----------------------------------------------------------------------------
(* Output: ComponentIndexer and CompactFormatter.                          *)

\* The values of a dictionary that are keys of the table, in the order in
\* which the table received them (the order in which a builder fills the
\* children of an entry).
ValuesInOrder(d, order) ==
    SelectSeq(order, LAMBDA fqn : \E key \in DOMAIN d : d[key] = fqn)

ComponentIndexer ==
    [fqn_to_id |-> EmptyDict, id_to_fqn |-> EmptyDict, next_id |-> 1]

\* Variant: every call hands out a new ID.
get_or_create_id_Always(indexer, fqn) ==
    [fqn_to_id |-> DictSet(indexer.fqn_to_id, fqn, indexer.next_id),
     id_to_fqn |-> DictSet(indexer.id_to_fqn, indexer.next_id, fqn),
     next_id |-> indexer.next_id + 1]

get_or_create_id(indexer, fqn) ==
    IF fqn \notin DOMAIN indexer.fqn_to_id
    THEN [fqn_to_id |-> DictSet(indexer.fqn_to_id, fqn, indexer.next_id),
          id_to_fqn |-> DictSet(indexer.id_to_fqn, indexer.next_id, fqn),
          next_id |-> indexer.next_id + 1]
    ELSE indexer

get_id(indexer, fqn) == indexer.fqn_to_id[fqn]

RECURSIVE CreateIds(_, _)
CreateIds(indexer, fqns) ==
    IF fqns = << >> THEN indexer
    ELSE CreateIds(get_or_create_id(indexer, Head(fqns)), Tail(fqns))

\* str(idx) -> fqn
to_json_index(indexer) ==
    [key \in {ToString(id) : id \in DOMAIN indexer.id_to_fqn} |->
        indexer.id_to_fqn[CHOOSE id \in DOMAIN indexer.id_to_fqn :
                              ToString(id) = key]]

\* The code table of the type codes, read in the direction of encoding.
TypeCodeTable ==
    [module |-> "mod", package |-> "pkg", class |-> "cls",
     function |-> "fn", method |-> "mth", variable |-> "var",
     import |-> "imp", call |-> "cal", attribute |-> "attr",
     inheritance |-> "inh"]

abbreviate_type_code(type) == DictGet(TypeCodeTable, type, type)

\* One iteration of the loop of format_components.
CompactComponent(indexer, fqn, symbol_table, order) ==
    LET component == symbol_table[fqn]
        ix1 == get_or_create_id(indexer, fqn)
        has_parent == Len(fqn) > 1 /\ Front(fqn) \in DOMAIN symbol_table
        ix2 == IF has_parent THEN get_or_create_id(ix1, Front(fqn)) ELSE ix1
        children == IF "children" \in DOMAIN component
                    THEN ValuesInOrder(component.children, order)
                    ELSE << >>
        ix3 == CreateIds(ix2, children)
        methods == IF "methods" \in DOMAIN component
                   THEN ValuesInOrder(component.methods, order)
                   ELSE << >>
        ix4 == CreateIds(ix3, methods)
    IN [indexer |-> ix4,
        component |->
           [i |-> get_id(ix4, fqn),
            n |-> DictGet(component, "name", EmptyStr),
            t |-> abbreviate_type_code(DictGet(component, "type", ""))]
           @@ [f |-> fqn]
           @@ (IF has_parent THEN [p |-> get_id(ix4, Front(fqn))]
               ELSE EmptyDict)
           @@ (IF "line_range" \in DOMAIN component
               THEN [l |-> component.line_range] ELSE EmptyDict)
           @@ (IF DictGet(component, "docstring", None) \notin {None, ""}
               THEN [d |-> component.docstring] ELSE EmptyDict)
           @@ (IF children # << >>
               THEN [c |-> [j \in 1..Len(children) |->
                               get_id(ix4, children[j])]]
               ELSE EmptyDict)
           @@ (IF methods # << >>
               THEN [m |-> [j \in 1..Len(methods) |->
                               get_id(ix4, methods[j])]]
               ELSE EmptyDict)]

RECURSIVE c_format_components(_, _, _, _, _)
c_format_components(todo, symbol_table, order, indexer, done) ==
    IF todo = << >> THEN [indexer |-> indexer, components |-> done]
    ELSE IF Len(todo) = 1
    THEN LET step == CompactComponent(indexer, Head(todo), symbol_table,
                                      order)
         IN [indexer |-> step.indexer,
             components |-> Append(done, step.component)]
    ELSE LET first == c_format_components(FirstHalf(todo), symbol_table,
                                          order, indexer, done)
         IN After(first,
                  c_format_components(SecondHalf(todo), symbol_table, order,
                                      first.indexer, first.components))

\* Variant: the target text is appended to every edge.
CompactEdge_AlwaysText(indexer, edge) ==
    LET source_fqn == EdgeGet(edge, "source")
        target_fqn == EdgeGet(edge, "target")
        ix1 == IF source_fqn # EmptyStr
               THEN get_or_create_id(indexer, source_fqn) ELSE indexer
        source_id == IF source_fqn # EmptyStr THEN get_id(ix1, source_fqn)
                     ELSE -1
        target_id == IF target_fqn \in DOMAIN ix1.fqn_to_id
                     THEN get_id(ix1, target_fqn) ELSE -1
        type_code == abbreviate_type_code(DictGet(edge, "type", "unknown"))
        line == DictGet(edge, "line", 0)
    IN [indexer |-> ix1,
        edge |-> <<source_id, target_id, type_code, line, target_fqn>>]

\* One iteration of the loop of format_edges.
CompactEdge(indexer, edge) ==
    LET source_fqn == EdgeGet(edge, "source")
        target_fqn == EdgeGet(edge, "target")
        ix1 == IF source_fqn # EmptyStr
               THEN get_or_create_id(indexer, source_fqn) ELSE indexer
        source_id == IF source_fqn # EmptyStr THEN get_id(ix1, source_fqn)
                     ELSE -1
        target_id == IF target_fqn \in DOMAIN ix1.fqn_to_id
                     THEN get_id(ix1, target_fqn) ELSE -1
        type_code == abbreviate_type_code(DictGet(edge, "type", "unknown"))
        line == DictGet(edge, "line", 0)
    IN [indexer |-> ix1,
        edge |-> <<source_id, target_id, type_code, line>>
                 \o (IF target_id = -1 THEN <<target_fqn>> ELSE << >>)]

RECURSIVE c_format_edges(_, _, _)
c_format_edges(edges, indexer, done) ==
    IF edges = << >> THEN [indexer |-> indexer, edges |-> done]
    ELSE IF Len(edges) = 1
    THEN LET step == CompactEdge(indexer, Head(edges))
         IN [indexer |-> step.indexer, edges |-> Append(done, step.edge)]
    ELSE LET first == c_format_edges(FirstHalf(edges), indexer, done)
         IN After(first, c_format_edges(SecondHalf(edges), first.indexer,
                                        first.edges))

\* The indexer of a formatter after format_components and format_edges.
IndexerAfter(ix, table, order, edges) ==
    c_format_edges(edges,
                   c_format_components(order, table, order, ix,
                                       << >>).indexer,
                   << >>).indexer

\* Variant: the index is exported before the edges are formatted.
c_build_output_EarlyIndex(ix, table, order, edges, meta, crossroad_list, path_list) ==
    LET comps == c_format_components(order, table, order, ix, << >>)
        edgs == c_format_edges(edges, comps.indexer, << >>)
    IN [idx |-> to_json_index(comps.indexer),
        md |-> [tip |-> DictGet(meta, "total_integration_points", 0),
                crs |-> DictGet(meta, "total_crossroads", 0),
                ts |-> DictGet(meta, "analysis_timestamp", ""),
                fa |-> DictGet(meta, "files_analyzed", 0),
                cf |-> DictGet(meta, "components_found", 0)],
        cmp |-> comps.components,
        edg |-> edgs.edges]
       @@ (IF crossroad_list # << >> THEN [crd |-> crossroad_list]
           ELSE EmptyDict)
       @@ (IF path_list # << >> THEN [cp |-> path_list] ELSE EmptyDict)

\* CompactFormatter.build_output on a formatter whose indexer is ix.
c_build_output(ix, table, order, edges, meta, crossroad_list, path_list) ==
    LET comps == c_format_components(order, table, order, ix, << >>)
        edgs == c_format_edges(edges, comps.indexer, << >>)
    IN [idx |-> to_json_index(edgs.indexer),
        md |-> [tip |-> DictGet(meta, "total_integration_points", 0),
                crs |-> DictGet(meta, "total_crossroads", 0),
                ts |-> DictGet(meta, "analysis_timestamp", ""),
                fa |-> DictGet(meta, "files_analyzed", 0),
                cf |-> DictGet(meta, "components_found", 0)],
        cmp |-> comps.components,
        edg |-> edgs.edges]
       @@ (IF crossroad_list # << >> THEN [crd |-> crossroad_list]
           ELSE EmptyDict)
       @@ (IF path_list # << >> THEN [cp |-> path_list] ELSE EmptyDict)

----------------------------------------------------------------------------
(* Output: the nested tree, VerboseFormatter and CompactDecoder.           *)
(*                                                                         *)
(* A nested tree is the function from the path of names that leads to a    *)
(* node to the node; the children field of a node holds the entries of its *)
(* children dictionary that are strings, the entries that are nodes are    *)
(* the nodes one name further down the path.                               *)

\* A dotted string as one string.
RECURSIVE JoinDots(_)
JoinDots(fqn) ==
    IF Len(fqn) = 1 THEN Head(fqn)
    ELSE Head(fqn) \o "." \o JoinDots(Tail(fqn))

IsProperPrefix(p, fqn) ==
    Len(p) < Len(fqn) /\ SubSeq(fqn, 1, Len(p)) = p

DictRemove(d, key) == [x \in DOMAIN d \ {key} |-> d[x]]

EmptyTree == [nodes |-> EmptyDict, err |-> FALSE]

\* One step of the walk down parts[:-1]: the package node made for a name
\* the current dictionary lacks, the children dictionary added to a node
\* without one; a name bound to a string cannot be walked through
\* (TypeError).
RECURSIVE TreeDescend(_, _, _)
TreeDescend(t, parts, k) ==
    IF k >= Len(parts) \/ t.err THEN t
    ELSE LET here == SubSeq(parts, 1, k)
             above == SubSeq(parts, 1, k - 1)
         IN TreeDescend(
               IF here \in DOMAIN t.nodes
               THEN IF "children" \in DOMAIN t.nodes[here] THEN t
                    ELSE [t EXCEPT !.nodes[here] =
                             [children |-> EmptyDict] @@ @]
               ELSE IF k > 1 /\ parts[k] \in DOMAIN t.nodes[above].children
                    THEN [t EXCEPT !.err = TRUE]
                    ELSE [t EXCEPT !.nodes =
                             DictSet(@, here, [type |-> "package",
                                               children |-> EmptyDict])],
               parts, k + 1)

\* current[parts[-1]] = node at the end of the walk: the node replaces
\* whatever the name was bound to.
TreeInsert(t, parts, node) ==
    LET t1 == TreeDescend(t, parts, 1)
        above == Front(parts)
        kept == [path \in {x \in DOMAIN t1.nodes : ~IsProperPrefix(parts, x)}
                    |-> t1.nodes[path]]
        unbound == IF Len(parts) > 1
                   THEN [kept EXCEPT ![above] =
                           [@ EXCEPT !.children = DictRemove(@, Last(parts))]]
                   ELSE kept
    IN IF t1.err THEN t1
       ELSE [t1 EXCEPT !.nodes = DictSet(unbound, parts, node)]

\* VerboseFormatter.format_components: the entries no other key is a dotted
\* prefix of, each at the end of the path of its FQN.
RECURSIVE v_format_components(_, _, _)
v_format_components(todo, symbol_table, t) ==
    IF todo = << >> THEN t
    ELSE IF Len(todo) = 1
    THEN LET fqn == Head(todo)
             component == symbol_table[fqn]
         IN IF \E other \in DOMAIN symbol_table : IsProperPrefix(other, fqn)
            THEN t
            ELSE TreeInsert(t, fqn,
                    [children |-> DictGet(component, "children", EmptyDict)]
                    @@ component)
    ELSE LET t1 == v_format_components(FirstHalf(todo), symbol_table, t)
         IN After(t1, v_format_components(SecondHalf(todo), symbol_table,
                                          t1))

v_format_edges(edges) == edges

v_build_output(table, order, edges, meta, crossroad_list, path_list) ==
    [metadata |-> meta,
     codebase_tree |-> v_format_components(order, table, EmptyTree),
     global_integration_map |->
        [crossroads |-> crossroad_list,
         critical_paths |-> path_list,
         data_flows |-> << >>,
         statistics |->
            [total_components |-> Cardinality(DOMAIN table),
             total_integration_points |-> Len(v_format_edges(edges)),
             total_edges |-> Len(v_format_edges(edges))]],
     integration_edges |-> v_format_edges(edges)]

TYPE_EXPANSION ==
    [mod |-> "module", pkg |-> "package", cls |-> "class",
     fn |-> "function", mth |-> "method", var |-> "variable",
     imp |-> "import"]

EDGE_TYPE_EXPANSION ==
    [imp |-> "import", cal |-> "call", attr |-> "attribute",
     inh |-> "inheritance", imp_mod |-> "import_module",
     imp_frm |-> "import_from", fn_cal |-> "function_call",
     attr_acc |-> "attribute_access"]

METADATA_EXPANSION ==
    [tip |-> "total_integration_points", crs |-> "total_crossroads",
     ts |-> "analysis_timestamp", fa |-> "files_analyzed",
     cf |-> "components_found"]

_expand_type_code(code) == DictGet(TYPE_EXPANSION, code, code)

_expand_edge_type(code) == DictGet(EDGE_TYPE_EXPANSION, code, code)

_decode_metadata(compact_metadata) ==
    [key \in {DictGet(METADATA_EXPANSION, k, k) :
                 k \in DOMAIN compact_metadata} |->
        compact_metadata[CHOOSE k \in DOMAIN compact_metadata :
                            DictGet(METADATA_EXPANSION, k, k) = key]]

\* fqn_index.get(str(id), f"<unknown:{id}>")
IndexGet(fqn_index, id) ==
    DictGet(fqn_index, ToString(id), <<"<unknown:" \o ToString(id) \o ">">>)

\* The component one entry of cmp expands to.
ExpandedComponent(comp, fqn_index) ==
    [fqn |-> IndexGet(fqn_index, comp.i),
     name |-> DictGet(comp, "n", EmptyStr),
     type |-> _expand_type_code(DictGet(comp, "t", "")),
     line_range |-> DictGet(comp, "l", << >>)]
    @@ (IF "d" \in DOMAIN comp THEN [docstring |-> comp.d] ELSE EmptyDict)
    @@ (IF "c" \in DOMAIN comp
        THEN [children |->
                [key \in {JoinDots(IndexGet(fqn_index, comp.c[j])) :
                             j \in 1..Len(comp.c)} |->
                    IndexGet(fqn_index,
                        comp.c[CHOOSE j \in 1..Len(comp.c) :
                            JoinDots(IndexGet(fqn_index, comp.c[j])) = key])]]
        ELSE EmptyDict)
    @@ (IF "m" \in DOMAIN comp
        THEN [methods |->
                [key \in {Last(IndexGet(fqn_index, comp.m[j])) :
                             j \in 1..Len(comp.m)} |->
                    IndexGet(fqn_index,
                        comp.m[CHOOSE j \in 1..Len(comp.m) :
                            Last(IndexGet(fqn_index, comp.m[j])) = key
                            /\ \A l \in (j + 1)..Len(comp.m) :
                                  Last(IndexGet(fqn_index, comp.m[l])) # key])]]
        ELSE EmptyDict)

RECURSIVE _decode_components(_, _, _)
_decode_components(compact_components, fqn_index, done) ==
    IF compact_components = << >> THEN done
    ELSE IF Len(compact_components) = 1
    THEN LET expanded == ExpandedComponent(Head(compact_components),
                                           fqn_index)
         IN OrderedSet(done, expanded.fqn, expanded)
    ELSE LET done1 == _decode_components(FirstHalf(compact_components),
                                         fqn_index, done)
         IN After(done1, _decode_components(SecondHalf(compact_components),
                                            fqn_index, done1))

\* Variant: an edge array needs 5 elements to be decoded.
RECURSIVE _decode_edges_Min5(_, _, _)
_decode_edges_Min5(compact_edges, fqn_index, done) ==
    IF compact_edges = << >> THEN done
    ELSE IF Len(compact_edges) = 1
    THEN LET edge == Head(compact_edges)
         IN IF Len(edge) < 5 THEN done
            ELSE Append(done,
                   [type |-> _expand_edge_type(edge[3]),
                    source |-> IndexGet(fqn_index, edge[1]),
                    target |-> IF edge[2] = -1 /\ Len(edge) > 4
                               THEN edge[5]
                               ELSE IndexGet(fqn_index, edge[2]),
                    line |-> edge[4],
                    integration_type |-> _expand_edge_type(edge[3])])
    ELSE LET done1 == _decode_edges_Min5(FirstHalf(compact_edges), fqn_index,
                                    done)
         IN After(done1, _decode_edges_Min5(SecondHalf(compact_edges), fqn_index,
                                       done1))

RECURSIVE _decode_edges(_, _, _)
_decode_edges(compact_edges, fqn_index, done) ==
    IF compact_edges = << >> THEN done
    ELSE IF Len(compact_edges) = 1
    THEN LET edge == Head(compact_edges)
         IN IF Len(edge) < 4 THEN done
            ELSE Append(done,
                   [type |-> _expand_edge_type(edge[3]),
                    source |-> IndexGet(fqn_index, edge[1]),
                    target |-> IF edge[2] = -1 /\ Len(edge) > 4
                               THEN edge[5]
                               ELSE IndexGet(fqn_index, edge[2]),
                    line |-> edge[4],
                    integration_type |-> _expand_edge_type(edge[3])])
    ELSE LET done1 == _decode_edges(FirstHalf(compact_edges), fqn_index,
                                    done)
         IN After(done1, _decode_edges(SecondHalf(compact_edges), fqn_index,
                                       done1))

RECURSIVE _rebuild_tree(_, _)
_rebuild_tree(components, t) ==
    IF components = << >> THEN t
    ELSE IF Len(components) = 1
    THEN TreeInsert(t, Head(components).key, Head(components).val)
    ELSE LET t1 == _rebuild_tree(FirstHalf(components), t)
         IN After(t1, _rebuild_tree(SecondHalf(components), t1))

\* CompactDecoder.decode; err when _rebuild_tree raised.
decode(compact_map) ==
    LET fqn_index == DictGet(compact_map, "idx", EmptyDict)
        crossroad_list == DictGet(compact_map, "crd", << >>)
        path_list == DictGet(compact_map, "cp", << >>)
        meta == _decode_metadata(DictGet(compact_map, "md", EmptyDict))
        components == _decode_components(DictGet(compact_map, "cmp", << >>),
                                         fqn_index, << >>)
        edges == _decode_edges(DictGet(compact_map, "edg", << >>),
                               fqn_index, << >>)
        t == _rebuild_tree(components, EmptyTree)
    IN IF t.err THEN [err |-> TRUE]
       ELSE [err |-> FALSE,
             metadata |-> meta,
             codebase_tree |-> t,
             global_integration_map |->
                [crossroads |-> crossroad_list,
                 critical_paths |-> path_list,
                 data_flows |-> << >>,
                 statistics |->
                    [total_components |-> Len(components),
                     total_integration_points |-> Len(edges),
                     total_edges |-> Len(edges)]],
             integration_edges |-> edges]

----------------------------------------------------------------------------
(* The source files the runs are given.                                    *)

SourceFile(path, valid, body) == [path |-> path, valid |-> valid, body |-> body]

\* a.py:  def f(): pass
File_a ==
    SourceFile(<<"a", ".py">>, TRUE,
        <<FunctionDef("f", << >>, <<Pass(2)>>, 1, 2)>>)

\* b.py:  import a / def g(): a.f()
File_b ==
    SourceFile(<<"b", ".py">>, TRUE,
        <<Import(<<Alias(<<"a">>, None)>>, 1),
          FunctionDef("g", << >>,
              <<Expr(Call(Attribute(Name("a"), "f", "Load"), << >>), 3)>>,
              2, 3)>>)

\* d.py:  a file that does not parse
File_bad == SourceFile(<<"d", ".py">>, FALSE, << >>)

\* n.py:  class C: def m(self): def h(): run(self.v)
\*        def f1(): def helper(): pass / class L: pass
\*        def f2(): def helper(): h()[0]()
File_n ==
    SourceFile(<<"n", ".py">>, TRUE,
        <<ClassDef("C", << >>,
              <<FunctionDef("m", <<"self">>,
                    <<FunctionDef("h", << >>,
                          <<Expr(Call(Name("run"),
                                <<Attribute(Name("self"), "v", "Load")>>), 4)>>,
                          3, 4)>>,
                    2, 4)>>,
              1, 4),
          FunctionDef("f1", << >>,
              <<FunctionDef("helper", << >>, <<Pass(7)>>, 6, 7),
                ClassDef("L", << >>, <<Pass(9)>>, 8, 9)>>,
              5, 9),
          FunctionDef("f2", << >>,
              <<FunctionDef("helper", << >>,
                    <<Expr(Call(Subscript(Call(Name("h"), << >>)), << >>), 12)>>,
                    11, 12)>>,
              10, 12)>>)

\* p/q/m.py:  from a import B as K, f / import a.x
\*            class D(K): "doc" / def run(self): self.u = f(a.x.y)
\*            class E(a.B, D): pass
File_m ==
    SourceFile(<<"p", "/", "q", "/", "m", ".py">>, TRUE,
        <<ImportFrom(<<"a">>, <<Alias(<<"B">>, "K"), Alias(<<"f">>, None)>>, 1),
          Import(<<Alias(<<"a", "x">>, None)>>, 2),
          ClassDef("D", <<Name("K")>>,
              <<Expr(Constant("doc"), 4),
                FunctionDef("run", <<"self">>,
                    <<Assign(Attribute(Name("self"), "u", "Store"),
                             Call(Name("f"),
                                  <<Attribute(Attribute(Name("a"), "x", "Load"),
                                              "y", "Load")>>), 6)>>,
                    5, 6)>>,
              3, 6),
          ClassDef("E", <<Attribute(Name("a"), "B", "Load"), Name("D")>>,
              <<Pass(8)>>, 7, 8)>>)

\* X.py:  class X: def m(self): g() / g()
File_X ==
    SourceFile(<<"X", ".py">>, TRUE,
        <<ClassDef("X", << >>,
              <<FunctionDef("m", <<"self">>,
                    <<Expr(Call(Name("g"), << >>), 3)>>, 2, 3)>>,
              1, 3),
          Expr(Call(Name("g"), << >>), 4)>>)

\* a/b.py:  from . import x / import n
\*          class C(n.C): class Meta: pass
\*          n.f1() / n.f1()
File_ab ==
    SourceFile(<<"a", "/", "b", ".py">>, TRUE,
        <<ImportFrom(None, <<Alias(<<"x">>, None)>>, 1),
          Import(<<Alias(<<"n">>, None)>>, 2),
          ClassDef("C", <<Attribute(Name("n"), "C", "Load")>>,
              <<ClassDef("Meta", << >>, <<Pass(5)>>, 4, 5)>>, 3, 5),
          Expr(Call(Attribute(Name("n"), "f1", "Load"), << >>), 6),
          Expr(Call(Attribute(Name("n"), "f1", "Load"), << >>), 7)>>)

\* .py (a file whose name is the bare suffix):
\*     class C: def m(self): pass / def f(): g()
File_dot ==
    SourceFile(<<"", ".py">>, TRUE,
        <<ClassDef("C", << >>,
              <<FunctionDef("m", <<"self">>, <<Pass(3)>>, 2, 3)>>, 1, 3),
          FunctionDef("f", << >>,
              <<Expr(Call(Name("g"), << >>), 5)>>, 4, 5)>>)

\* c.py:  import a as Y, n / from a import f as F
\*        Y() / F() / g().run()
\*        class Z(g()): pass
\*        class W(n.C, g()[0], F): pass
File_c ==
    SourceFile(<<"c", ".py">>, TRUE,
        <<Import(<<Alias(<<"a">>, "Y"), Alias(<<"n">>, None)>>, 1),
          ImportFrom(<<"a">>, <<Alias(<<"f">>, "F")>>, 2),
          Expr(Call(Name("Y"), << >>), 3),
          Expr(Call(Name("F"), << >>), 4),
          Expr(Call(Attribute(Call(Name("g"), << >>), "run", "Load"),
                    << >>), 5),
          ClassDef("Z", <<Call(Name("g"), << >>)>>, <<Pass(7)>>, 6, 7),
          ClassDef("W", <<Attribute(Name("n"), "C", "Load"),
                          Subscript(Call(Name("g"), << >>)),
                          Name("F")>>,
                   <<Pass(9)>>, 8, 9)>>)

Corpus ==
    <<File_a, File_b, File_bad, File_n, File_m, File_X, File_ab, File_dot,
      File_c>>

\* File lists without repetition, at most MaxFiles long.
FileLists ==
    {<< >>} \cup
    UNION {{[j \in 1..n |-> Corpus[ix[j]]] :
               ix \in {s \in [1..n -> 1..Len(Corpus)] :
                          \A j, l \in 1..n : j # l => s[j] # s[l]}} :
           n \in 1..MaxFiles}

----------------------------------------------------------------------------
(* IntegrationMapper.                                                      *)

VARIABLES
    disk,               \* what root_path.rglob("*.py") returns
    files,              \* self.files
    symbol_table,       \* self.symbol_table
    symbol_order,       \* the insertion order of its keys
    tree,               \* self.tree
    integration_edges,  \* self.integration_edges
    crossroads,         \* result of phase 3
    critical_paths,     \* result of phase 3
    metadata,           \* metadata handed to the formatter
    pc,                 \* position in run()
    idx,                \* position of the current phase's loop in files
    log,                \* the per-file and per-phase steps taken so far
    context_aware,      \* self.context_aware: CompactFormatter is selected
    output,             \* what run() returns and main() writes
    decoded,            \* what main() writes for --decode of that output
    indexer,            \* self.formatter.indexer, a ComponentIndexer
    data,               \* a structure handed to abbreviate_keys
    abbreviated,        \* what abbreviate_keys returned for it
    expanded            \* what expand_keys returned for that

vars == <<disk, files, symbol_table, symbol_order, tree, integration_edges,
          crossroads, critical_paths, metadata, pc, idx, log, context_aware,
          output, decoded, indexer, data, abbreviated, expanded>>

\* Values of datetime.now().isoformat().
Clock == {"2025-10-16T12:00:00", "2025-10-16T12:00:01"}

Init ==
    /\ disk \in FileLists
    /\ files \in {<< >>, disk}
    /\ symbol_table = EmptyDict
    /\ symbol_order = << >>
    /\ tree = EmptyDict
    /\ integration_edges = << >>
    /\ crossroads = << >>
    /\ critical_paths = << >>
    /\ metadata = EmptyDict
    /\ pc = "run"
    /\ idx = 0
    /\ log = << >>
    /\ context_aware \in BOOLEAN
    /\ output = EmptyDict
    /\ decoded = EmptyDict
    /\ indexer = ComponentIndexer
    /\ data = EmptyDict
    /\ abbreviated = EmptyDict
    /\ expanded = EmptyDict

\* run(), up to the call of phase1_build_hierarchy; exclude_patterns is
\* empty, so discover_files keeps every file rglob returns.
discover_files ==
    /\ pc = "run"
    /\ files' = IF files = << >> THEN disk ELSE files
    /\ pc' = "phase1"
    /\ idx' = 1
    /\ UNCHANGED <<context_aware, output, decoded, disk, symbol_table,
                   symbol_order, tree, integration_edges, crossroads,
                   critical_paths, metadata, log, indexer, data, abbreviated,
                   expanded>>

\* Variant: a file that does not parse is visited as an empty module.
BuildHierarchy_NoRaise(file) ==
    h_visit_Module(file, HierarchyBuilder(file.path))

\* What one file leaves in a HierarchyBuilder; err when the visit raised.
BuildHierarchy(file) ==
    IF ~file.valid
    THEN [HierarchyBuilder(file.path) EXCEPT !.err = TRUE]
    ELSE h_visit_Module(file, HierarchyBuilder(file.path))

\* One iteration of the loop of phase1_build_hierarchy.
phase1_file ==
    /\ pc = "phase1"
    /\ idx <= Len(files)
    /\ LET builder == BuildHierarchy(files[idx])
       IN IF builder.err
          THEN UNCHANGED <<symbol_table, symbol_order, tree>>
          ELSE /\ symbol_table' = DictUpdate(symbol_table, builder.symbol_table)
               /\ symbol_order' = OrderUpdate(symbol_order, builder.order)
               /\ tree' = DictUpdate(tree, builder.tree)
    /\ idx' = idx + 1
    /\ log' = Append(log, <<"phase1", idx>>)
    /\ UNCHANGED <<context_aware, output, decoded, disk, files,
                   integration_edges, crossroads, critical_paths, metadata,
                   pc, indexer, data, abbreviated, expanded>>

\* Variant: phase 1 is left as soon as one file has been processed.
phase1_end_Early ==
    /\ pc = "phase1"
    /\ idx > 1
    /\ pc' = "phase2"
    /\ idx' = 1
    /\ UNCHANGED <<context_aware, output, decoded, disk, files, symbol_table,
                   symbol_order, tree, integration_edges, crossroads,
                   critical_paths, metadata, log, indexer, data, abbreviated,
                   expanded>>

phase1_end ==
    /\ pc = "phase1"
    /\ idx > Len(files)
    /\ pc' = "phase2"
    /\ idx' = 1
    /\ UNCHANGED <<context_aware, output, decoded, disk, files, symbol_table,
                   symbol_order, tree, integration_edges, crossroads,
                   critical_paths, metadata, log, indexer, data, abbreviated,
                   expanded>>

\* Variant: the alias map of the file before it in the list is kept.
ExtractIntegration_SharedAliases(file, table) ==
    LET before ==
            IF idx - 1 \in 1..Len(files) /\ files[idx - 1].valid
            THEN e_visit_Module(
                     files[idx - 1],
                     IntegrationExtractor(table, files[idx - 1].path)).alias_map
            ELSE EmptyDict
    IN EVisitBody(file.body,
                  [IntegrationExtractor(table, file.path)
                      EXCEPT !.scope_stack = <<ModuleFqn(file.path)>>,
                             !.alias_map = before])

\* What one file leaves in an IntegrationExtractor.
ExtractIntegration(file, table) ==
    e_visit_Module(file, IntegrationExtractor(table, file.path))

\* Variant: the edges of a file replace the list.
phase2_file_Replace ==
    /\ pc = "phase2"
    /\ idx <= Len(files)
    /\ IF ~files[idx].valid
       THEN UNCHANGED integration_edges
       ELSE integration_edges' =
               ExtractIntegration(files[idx], symbol_table).integration_edges
    /\ idx' = idx + 1
    /\ log' = Append(log, <<"phase2", idx>>)
    /\ UNCHANGED <<context_aware, output, decoded, disk, files, symbol_table,
                   symbol_order, tree, crossroads, critical_paths, metadata,
                   pc, indexer, data, abbreviated, expanded>>

\* One iteration of the loop of phase2_extract_integration.
phase2_file ==
    /\ pc = "phase2"
    /\ idx <= Len(files)
    /\ IF ~files[idx].valid
       THEN UNCHANGED integration_edges
       ELSE integration_edges' = integration_edges \o
               ExtractIntegration(files[idx], symbol_table).integration_edges
    /\ idx' = idx + 1
    /\ log' = Append(log, <<"phase2", idx>>)
    /\ UNCHANGED <<context_aware, output, decoded, disk, files, symbol_table,
                   symbol_order, tree, crossroads, critical_paths, metadata,
                   pc, indexer, data, abbreviated, expanded>>

phase2_end ==
    /\ pc = "phase2"
    /\ idx > Len(files)
    /\ pc' = "phase3"
    /\ UNCHANGED <<context_aware, output, decoded, disk, files, symbol_table,
                   symbol_order, tree, integration_edges, crossroads,
                   critical_paths, metadata, idx, log, indexer, data,
                   abbreviated, expanded>>

phase3_analyze_flows ==
    /\ pc = "phase3"
    /\ crossroads' = _detect_crossroads(integration_edges)
    /\ critical_paths' =
          _identify_critical_paths(BuildCallGraph(integration_edges, << >>))
    /\ log' = Append(log, <<"phase3", 0>>)
    /\ pc' = "build_output"
    /\ UNCHANGED <<context_aware, output, decoded, disk, files, symbol_table,
                   symbol_order, tree, integration_edges, metadata, idx,
                   indexer, data, abbreviated, expanded>>

build_output ==
    /\ pc = "build_output"
    /\ \E now \in Clock :
          /\ metadata' = [total_integration_points |-> Len(integration_edges),
                          total_crossroads |-> Len(crossroads),
                          analysis_timestamp |-> now,
                          files_analyzed |-> Len(files),
                          components_found |-> Cardinality(DOMAIN symbol_table)]
          /\ output' = IF context_aware
                       THEN c_build_output(indexer, symbol_table,
                                           symbol_order, integration_edges,
                                           metadata', crossroads,
                                           critical_paths)
                       ELSE v_build_output(symbol_table, symbol_order,
                                           integration_edges, metadata',
                                           crossroads, critical_paths)
    /\ indexer' = IF context_aware
                  THEN IndexerAfter(indexer, symbol_table, symbol_order,
                                    integration_edges)
                  ELSE indexer
    /\ pc' = "done"
    /\ UNCHANGED <<context_aware, decoded, disk, files, symbol_table,
                   symbol_order, tree, integration_edges, crossroads,
                   critical_paths, idx, log, data, abbreviated, expanded>>

\* main() with --decode on the file a context-aware run has written.
main_decode ==
    /\ pc = "done"
    /\ context_aware
    /\ decoded' = decode(output)
    /\ pc' = "decoded"
    /\ UNCHANGED <<context_aware, output, disk, files, symbol_table,
                   symbol_order, tree, integration_edges, crossroads,
                   critical_paths, metadata, idx, log, indexer, data,
                   abbreviated, expanded>>

Next ==
    \/ discover_files
    \/ phase1_file
    \/ phase1_end
    \/ phase2_file
    \/ phase2_end
    \/ phase3_analyze_flows
    \/ build_output
    \/ main_decode

Spec == Init /\ [][Next]_vars

\* The runs over files whose name has a stem.
InitNamed ==
    /\ Init
    /\ \A i \in 1..Len(disk) : ModuleFqn(disk[i].path) # EmptyStr

SpecNamed == InitNamed /\ [][Next]_vars

----------------------------------------------------------------------------
(* Properties.                                                             *)

Finished == pc = "done"
AfterPhase1 == pc \in {"phase2", "phase3", "build_output", "done"}

\* The end-to-end scenario of the specification, in either discovery order.
Scenario == files \in {<<File_a, File_b>>, <<File_b, File_a>>}

EdgeCore(edge) ==
    <<edge.type, EdgeGet(edge, "source"), EdgeGet(edge, "target")>>

EdgeCores == [j \in 1..Len(integration_edges) |-> EdgeCore(integration_edges[j])]

\* C1: in the scenario (a.py defines f; b.py imports a and defines g calling
\* a.f()) the merged edge list of phase 2 is one import edge b -> a and one
\* call edge b.g -> a.f.
C1_ScenarioEdges ==
    (Scenario /\ Finished) =>
        EdgeCores = << <<"import", <<"b">>, <<"a">>>>,
                       <<"call", <<"b", "g">>, <<"a", "f">>>> >>

StepsOf(phase) == {j \in 1..Len(log) : log[j][1] = phase}

AllFilesBefore(phase, j) ==
    \A i \in 1..Len(files) : \E l \in 1..(j - 1) : log[l] = <<phase, i>>

\* C3: no file is processed by phase 2 before phase 1 has processed every
\* file of the list; phase 3 runs only after phase 2 has processed every
\* file, at most once, and exactly once in a finished run.
C3_PhaseBarrier ==
    /\ \A j \in StepsOf("phase2") : AllFilesBefore("phase1", j)
    /\ \A j \in StepsOf("phase3") : AllFilesBefore("phase2", j)
    /\ Cardinality(StepsOf("phase3")) <= 1
    /\ Finished => Cardinality(StepsOf("phase3")) = 1
    /\ Finished => crossroads = _detect_crossroads(integration_edges)

C3_Witness ==
    Finished /\ Len(files) >= 2 /\ Cardinality(StepsOf("phase2")) >= 2
    /\ crossroads # << >>

ValidFiles(list) == SelectSeq(list, LAMBDA f : f.valid)

\* The table and the edges a run over the given list ends with.
RECURSIVE MergedTable(_, _)
MergedTable(list, acc) ==
    IF list = << >> THEN acc
    ELSE LET builder == BuildHierarchy(Head(list))
         IN MergedTable(Tail(list),
                        IF builder.err THEN acc
                        ELSE DictUpdate(acc, builder.symbol_table))

RECURSIVE MergedEdges(_, _, _)
MergedEdges(list, table, acc) ==
    IF list = << >> THEN acc
    ELSE MergedEdges(Tail(list), table,
            acc \o ExtractIntegration(Head(list), table).integration_edges)

\* C4: a run over a list holding files that do not parse finishes with the
\* symbol table and the edge list of the run over the list without those
\* files, and with no entry of a file that does not parse.
C4_FaultIsolation ==
    Finished =>
        /\ symbol_table = MergedTable(ValidFiles(files), EmptyDict)
        /\ integration_edges =
              MergedEdges(ValidFiles(files), symbol_table, << >>)
        /\ \A i \in 1..Len(files) : ~files[i].valid =>
              \A key \in DOMAIN symbol_table :
                  symbol_table[key].path # files[i].path

C4_Witness ==
    /\ Finished
    /\ \E i, j \in 1..Len(files) :
          i < j /\ ~files[i].valid /\ files[j].valid
          /\ \E key \in DOMAIN symbol_table :
                symbol_table[key].path = files[j].path
    /\ integration_edges # << >>

ChildMaps(entry) == {"children", "methods"} \cap DOMAIN entry

\* C5: every (local name -> child FQN) pair of the children map or methods
\* map of an entry P of the symbol table has child FQN = P.fqn + "." + name,
\* and the child FQN is a key of the symbol table.
C5_TreeInvariant ==
    \A key \in DOMAIN symbol_table :
        LET entry == symbol_table[key]
        IN \A field \in ChildMaps(entry) :
             \A n \in DOMAIN entry[field] :
                /\ entry[field][n] = entry.fqn \o <<n>>
                /\ entry[field][n] \in DOMAIN symbol_table

\* The FQN of every definition of a body by its lexical nesting.
RECURSIVE LexicalFqns(_, _)
LexicalFqns(body, scope) ==
    IF body = << >> THEN {}
    ELSE LET node == Head(body)
         IN (IF node.k \in {"ClassDef", "FunctionDef"}
             THEN {scope \o <<node.name>>}
                  \cup LexicalFqns(node.body, scope \o <<node.name>>)
             ELSE {})
            \cup LexicalFqns(Tail(body), scope)

\* The files of the list whose entries phase 1 merged.
Merged(i) == files[i].valid /\ ~BuildHierarchy(files[i]).err

\* C6: every class or function definition, at any depth, is registered under
\* the FQN of its immediately enclosing module, class or function + "." +
\* its name.
C6_FqnByEnclosingScope ==
    AfterPhase1 =>
        \A i \in 1..Len(files) : Merged(i) =>
            LexicalFqns(files[i].body, ModuleFqn(files[i].path))
                \subseteq DOMAIN symbol_table

\* C7: after phase 1 the key of every entry with its last segment removed is
\* a key as well, and every proper prefix of a module FQN is an entry of
\* kind package unless it is a module itself.
C7_PrefixClosed ==
    AfterPhase1 =>
        /\ \A key \in DOMAIN symbol_table :
              Len(key) > 1 => Front(key) \in DOMAIN symbol_table
        /\ \A i \in 1..Len(files) : Merged(i) =>
              LET module_fqn == ModuleFqn(files[i].path)
              IN \A n \in 1..(Len(module_fqn) - 1) :
                    LET prefix == SubSeq(module_fqn, 1, n)
                    IN /\ prefix \in DOMAIN symbol_table
                       /\ symbol_table[prefix].type \in {"package", "module"}

\* C8: a function defined directly in the body of a class of a module is in
\* the methods map of the class, a function defined directly in the module is
\* in the children map of the module, and none is in both.
C8_MethodClassification ==
    AfterPhase1 =>
        \A i \in 1..Len(files) : Merged(i) =>
            LET module_fqn == ModuleFqn(files[i].path)
                body == files[i].body
            IN \A j \in 1..Len(body) :
                 /\ body[j].k = "FunctionDef" =>
                       LET func_fqn == module_fqn \o <<body[j].name>>
                       IN DictGet(symbol_table[module_fqn].children,
                                  body[j].name, << >>) = func_fqn
                 /\ body[j].k = "ClassDef" =>
                       LET class_fqn == module_fqn \o <<body[j].name>>
                       IN \A l \in 1..Len(body[j].body) :
                            LET member == body[j].body[l]
                            IN member.k = "FunctionDef" =>
                                 /\ class_fqn \in DOMAIN symbol_table
                                 /\ "methods" \in
                                      DOMAIN symbol_table[class_fqn]
                                 /\ DictGet(symbol_table[class_fqn].methods,
                                            member.name, << >>)
                                      = class_fqn \o <<member.name>>
                                 /\ member.name \notin
                                      DOMAIN symbol_table[class_fqn].children

\* The FQN of the innermost module, class or function around the statement
\* on the given line; empty for the header line of a definition.
RECURSIVE ScopeAt(_, _, _)
ScopeAt(body, scope, line) ==
    IF body = << >> THEN << >>
    ELSE LET node == Head(body)
             here == IF node.k \in {"ClassDef", "FunctionDef"}
                     THEN ScopeAt(node.body, scope \o <<node.name>>, line)
                     ELSE IF node.line = line THEN scope ELSE << >>
         IN IF here # << >> THEN here ELSE ScopeAt(Tail(body), scope, line)

\* C9: every edge phase 2 appends for a statement of a file has as source
\* the FQN of the innermost function, class or module around the statement.
C9_EdgeSourceScope ==
    [][(pc = "phase2" /\ idx <= Len(files) /\ idx' = idx + 1) =>
          \A j \in (Len(integration_edges) + 1)..Len(integration_edges') :
              LET edge == integration_edges'[j]
                  scope == ScopeAt(files[idx].body,
                                   ModuleFqn(files[idx].path), edge.line)
              IN scope # << >> => edge.source = scope]_vars

\* The targets of an edge: the base list of an inheritance edge, the target
\* of any other.
EdgeTargets(edge) ==
    IF edge.type = "inheritance" THEN edge.targets ELSE <<edge.target>>

CrossesPair(source, target, pair) ==
    /\ TopSegment(source) # "" /\ TopSegment(target) # ""
    /\ TopSegment(source) # TopSegment(target)
    /\ {TopSegment(source), TopSegment(target)} = {pair[1], pair[2]}

\* Number of (edge, target) pairs of the edge list that cross between the
\* two top-level segments of pair, in either direction.
RECURSIVE CrossEdgeCount(_, _)
CrossEdgeCount(edges, pair) ==
    IF edges = << >> THEN 0
    ELSE LET edge == Head(edges)
             targets == EdgeTargets(edge)
         IN Cardinality({j \in 1..Len(targets) :
                            CrossesPair(edge.source, targets[j], pair)})
            + CrossEdgeCount(Tail(edges), pair)

\* C10: the integration_count of a crossroad is the number of edges of the
\* four kinds between its two components, in either direction, inheritance
\* edges counting through their base targets.
C10_CrossroadCounting ==
    Finished =>
        \A j \in 1..Len(crossroads) :
            crossroads[j].integration_count =
                CrossEdgeCount(integration_edges, crossroads[j].components)

----------------------------------------------------------------------------
(* FlowAnalyzer on its own: phase 3 applied to edge lists of every length. *)

\* Longest run of one edge in an edge list handed to FlowAnalyzer.
MaxRepeat == 11

\* Number of further callers, each calling twice inside its own module.
MaxCallers == 4

\* The edge visit_Call appends for a call without arguments.
CallEdge(source, target, line) ==
    [type |-> "call", source |-> source, target |-> target,
     target_fqn |-> target, line |-> line, args |-> << >>,
     integration_type |-> "function_call"]

\* The edge visit_Attribute appends for a read.
AttributeEdge(source, target, line) ==
    [type |-> "attribute", source |-> source, target |-> target,
     access |-> "read", line |-> line,
     integration_type |-> "attribute_access"]

Repeat(edge, k) == [j \in 1..k |-> edge]

\* Callers whose calls stay inside their module.
LocalCallers == << <<"b">>, <<"X", "X">>, <<"d">>, <<"n", "C">>, <<"X">> >>

RECURSIVE LocalCalls(_)
LocalCalls(k) ==
    IF k = 0 THEN << >>
    ELSE LocalCalls(k - 1)
         \o Repeat(CallEdge(LocalCallers[k],
                            <<Head(LocalCallers[k]), "g">>, k), 2)

\* Calls p.q.m.D -> a.f, local calls, calls n -> a.f, reads a.b -> p.x,
\* calls b -> n.f1.
FlowEdges(r1, k, r2, r3, r4) ==
    Repeat(CallEdge(<<"p", "q", "m", "D">>, <<"a", "f">>, 6), r1)
    \o LocalCalls(k)
    \o Repeat(CallEdge(<<"n">>, <<"a", "f">>, 12), r2)
    \o Repeat(AttributeEdge(<<"a", "b">>, <<"p", "x">>, 7), r3)
    \o Repeat(CallEdge(<<"b">>, <<"n", "f1">>, 3), r4)

FlowInputs ==
    {FlowEdges(r1, k, r2, r3, r4) :
        r1 \in 0..MaxRepeat, k \in 0..MaxCallers, r2 \in 0..MaxRepeat,
        r3 \in 0..1, r4 \in 2..3}

\* FlowAnalyzer constructed over an edge list, analyze() not yet called.
InitFlow ==
    /\ disk = << >>
    /\ files = << >>
    /\ symbol_table = EmptyDict
    /\ symbol_order = << >>
    /\ tree = EmptyDict
    /\ integration_edges \in FlowInputs
    /\ crossroads = << >>
    /\ critical_paths = << >>
    /\ metadata = EmptyDict
    /\ pc = "phase3"
    /\ idx = 1
    /\ log = << >>
    /\ context_aware = FALSE
    /\ output = EmptyDict
    /\ decoded = EmptyDict
    /\ indexer = ComponentIndexer
    /\ data = EmptyDict
    /\ abbreviated = EmptyDict
    /\ expanded = EmptyDict

NextFlow ==
    \/ phase3_analyze_flows
    \/ build_output

SpecFlow == InitFlow /\ [][NextFlow]_vars

Analyzed == pc \in {"build_output", "done"}

\* Top-level segments named by the edges that carry a target.
EdgeSegments ==
    UNION {{TopSegment(EdgeGet(integration_edges[j], "source")),
            TopSegment(EdgeGet(integration_edges[j], "target"))} :
           j \in 1..Len(integration_edges)}

\* Edges with a target that cross between the two segments of pair.
PairCount(pair) ==
    Cardinality({j \in 1..Len(integration_edges) :
        CrossesPair(EdgeGet(integration_edges[j], "source"),
                    EdgeGet(integration_edges[j], "target"), pair)})

CrossroadsOf(pair) ==
    {j \in 1..Len(crossroads) : crossroads[j].components = pair}

\* C11: a pair of top-level segments has a crossroad if and only if its
\* counted interactions are >= 3 (then exactly one, carrying that count),
\* and the criticality of a crossroad is "high" if and only if its count is
\* > 10, otherwise "medium".
C11_CrossroadThreshold ==
    Analyzed =>
        /\ \A a, b \in EdgeSegments \ {""} :
              Rank(a) < Rank(b) =>
                 LET count == PairCount(<<a, b>>)
                     found == CrossroadsOf(<<a, b>>)
                 IN /\ Cardinality(found) = (IF count >= 3 THEN 1 ELSE 0)
                    /\ \A j \in found :
                          crossroads[j].integration_count = count
        /\ \A j \in 1..Len(crossroads) :
              /\ crossroads[j].integration_count >= 3
              /\ crossroads[j].criticality =
                    (IF crossroads[j].integration_count > 10
                     THEN "high" ELSE "medium")
              /\ Rank(crossroads[j].components[1])
                    < Rank(crossroads[j].components[2])

C11_Witness ==
    /\ Analyzed
    /\ PairCount(<<"b", "n">>) = 2 /\ CrossroadsOf(<<"b", "n">>) = {}
    /\ \E j \in 1..Len(crossroads) :
          crossroads[j].integration_count = 11
          /\ crossroads[j].criticality = "high"
    /\ \E j \in 1..Len(crossroads) :
          crossroads[j].integration_count = 10
          /\ crossroads[j].criticality = "medium"

\* Position of the first edge that crosses between the segments of pair.
FirstSeen(pair) ==
    CHOOSE j \in 1..Len(integration_edges) :
        /\ CrossesPair(EdgeGet(integration_edges[j], "source"),
                       EdgeGet(integration_edges[j], "target"), pair)
        /\ \A l \in 1..(j - 1) :
              ~CrossesPair(EdgeGet(integration_edges[l], "source"),
                           EdgeGet(integration_edges[l], "target"), pair)

\* C12: the crossroads are in descending order of integration_count, and of
\* two crossroads with equal counts the one whose pair was met first in the
\* edge list comes first.
C12_CrossroadOrder ==
    Analyzed =>
        \A i, j \in 1..Len(crossroads) :
            i < j =>
               /\ crossroads[i].integration_count
                     >= crossroads[j].integration_count
               /\ crossroads[i].integration_count
                     = crossroads[j].integration_count
                  => FirstSeen(crossroads[i].components)
                        < FirstSeen(crossroads[j].components)

\* Two crossroads of equal count, the first of them for the pair (a, p) that
\* sorts after (a, n) and is also met again after (a, n); and a third one of
\* a lower count behind them.
C12_Witness ==
    /\ Analyzed
    /\ Len(crossroads) = 3
    /\ crossroads[1].components = <<"a", "p">>
    /\ crossroads[2].components = <<"a", "n">>
    /\ crossroads[1].integration_count = crossroads[2].integration_count
    /\ crossroads[3].integration_count < crossroads[2].integration_count
    /\ \E j \in 1..Len(integration_edges) :
          /\ j > FirstSeen(<<"a", "n">>)
          /\ CrossesPair(integration_edges[j].source,
                         integration_edges[j].target, <<"a", "p">>)

CallEdges ==
    {j \in 1..Len(integration_edges) : integration_edges[j].type = "call"}

\* The callees of the call graph and the number of caller entries of each.
Callees == {integration_edges[j].target : j \in CallEdges}

FanIn(callee) ==
    Cardinality({j \in CallEdges : integration_edges[j].target = callee})

\* C13: every entry of critical_paths names a callee of the call graph and
\* reports its fan-in; the entries are in descending order of fan-in, at most
\* 5, none with fan-in < 2, and no callee left out has a fan-in >= 2 while
\* fewer than 5 are listed or a fan-in above that of a listed one.
C13_CalleeFanIn ==
    Analyzed =>
        /\ \A j \in 1..Len(critical_paths) :
              /\ critical_paths[j].entry_point \in Callees
              /\ critical_paths[j].call_count
                    = FanIn(critical_paths[j].entry_point)
              /\ critical_paths[j].call_count >= 2
        /\ \A i, j \in 1..Len(critical_paths) :
              i < j => critical_paths[i].call_count
                          >= critical_paths[j].call_count
        /\ Len(critical_paths) <= 5
        /\ \A callee \in Callees :
              (\A j \in 1..Len(critical_paths) :
                  critical_paths[j].entry_point # callee)
              => /\ FanIn(callee) >= 2 => Len(critical_paths) = 5
                 /\ \A j \in 1..Len(critical_paths) :
                       critical_paths[j].call_count >= FanIn(callee)

\* C14: critical_paths has at most 5 entries, and the complexity of an entry
\* is "high" if and only if its call_count is > 5, otherwise "medium".
C14_CriticalPathBound ==
    Analyzed =>
        /\ Len(critical_paths) <= 5
        /\ \A j \in 1..Len(critical_paths) :
              critical_paths[j].complexity =
                 (IF critical_paths[j].call_count > 5
                  THEN "high" ELSE "medium")

\* More than 5 sources of at least 2 call edges each, 5 entries reported,
\* among them one of count 6 and one of count 5.
C14_Witness ==
    /\ Analyzed
    /\ Cardinality({integration_edges[j].source : j \in
          {l \in CallEdges :
              Cardinality({m \in CallEdges :
                  integration_edges[m].source = integration_edges[l].source})
                 >= 2}}) > 5
    /\ Len(critical_paths) = 5
    /\ \E j \in 1..5 : critical_paths[j].call_count = 6
                       /\ critical_paths[j].complexity = "high"
    /\ \E j \in 1..5 : critical_paths[j].call_count = 5
                       /\ critical_paths[j].complexity = "medium"

\* The sources of the call edges of a list that have the given target, in
\* the order of the list.
CallersOf(edges, callee) ==
    LET calls == SelectSeq(edges, LAMBDA e : e.type = "call"
                                             /\ e.target = callee)
    IN [j \in 1..Len(calls) |-> calls[j].source]

RECURSIVE TotalEntries(_)
TotalEntries(call_graph) ==
    IF call_graph = << >> THEN 0
    ELSE Len(Head(call_graph).val) + TotalEntries(Tail(call_graph))

\* C15: the call graph handed to FlowAnalyzer holds, under every callee, the
\* source of each call edge to that callee, once per call edge and in the
\* order of the edges; the number of its caller entries is the number of
\* call edges; and the call graph an extractor keeps for its file holds the
\* same for the call edges of the file.
C15_CallGraphAccumulation ==
    Analyzed =>
        LET call_graph == BuildCallGraph(integration_edges, << >>)
        IN /\ TotalEntries(call_graph) = Cardinality(CallEdges)
           /\ {call_graph[j].key : j \in 1..Len(call_graph)} = Callees
           /\ \A i, j \in 1..Len(call_graph) :
                 call_graph[i].key = call_graph[j].key => i = j
           /\ \A j \in 1..Len(call_graph) :
                 call_graph[j].val =
                    CallersOf(integration_edges, call_graph[j].key)
           /\ \A i \in 1..Len(files) : files[i].valid =>
                 LET extractor == ExtractIntegration(files[i], symbol_table)
                 IN \A callee \in DOMAIN extractor.call_graph :
                       extractor.call_graph[callee] =
                          CallersOf(extractor.integration_edges, callee)

\* A run in which one caller calls the same callee twice and another callee
\* is called as well.
C15_Witness ==
    /\ Analyzed
    /\ files # << >>
    /\ LET call_graph == BuildCallGraph(integration_edges, << >>)
       IN /\ Len(call_graph) >= 2
          /\ \E j \in 1..Len(call_graph) :
                /\ Len(call_graph[j].val) >= 2
                /\ call_graph[j].val[1] = call_graph[j].val[2]

AfterPhase2 == pc \in {"phase3", "build_output", "done"}

\* The import statements of a body, at any depth, in source order.
RECURSIVE ImportStatements(_)
ImportStatements(body) ==
    IF body = << >> THEN << >>
    ELSE LET node == Head(body)
         IN (IF node.k \in {"Import", "ImportFrom"} THEN <<node>>
             ELSE IF node.k \in {"ClassDef", "FunctionDef"}
                  THEN ImportStatements(node.body)
                  ELSE << >>)
            \o ImportStatements(Tail(body))

BoundName(alias) ==
    IF alias.asname # None THEN <<alias.asname>> ELSE alias.name

\* The import edge the statement stands for: target X and items = [bound
\* name] for import X, target M and items = [A, B] for from M import A, B.
ImportEdgeOf(stmt, edge) ==
    /\ edge.line = stmt.line
    /\ IF stmt.k = "Import"
       THEN /\ edge.target = stmt.names[1].name
            /\ edge.items = <<BoundName(stmt.names[1])>>
       ELSE /\ edge.target = stmt.module
            /\ edge.items = [j \in 1..Len(stmt.names) |-> stmt.names[j].name]

\* C16: the import edges extracted from a file are, in order, one per import
\* statement of the file, each with the target and the items of its
\* statement.
C16_OneEdgePerImport ==
    AfterPhase2 =>
        \A i \in 1..Len(files) : files[i].valid =>
            LET edges == ExtractIntegration(files[i], symbol_table)
                            .integration_edges
                imports == SelectSeq(edges, LAMBDA e : e.type = "import")
                stmts == ImportStatements(files[i].body)
            IN /\ Len(imports) = Len(stmts)
               /\ \A j \in 1..Len(stmts) : ImportEdgeOf(stmts[j], imports[j])

\* An expression that is a name or an attribute chain ending in a name.
RECURSIVE IsNameChain(_)
IsNameChain(e) ==
    \/ e.k = "Name"
    \/ e.k = "Attribute" /\ IsNameChain(e.value)

RECURSIVE Dotted(_)
Dotted(e) == IF e.k = "Name" THEN <<e.id>> ELSE Dotted(e.value) \o <<e.attr>>

\* The callee a call resolves to: the alias-map value of a bare name or the
\* name itself, the dotted string of a chain of names, the sentinel for
\* anything else.
ResolvedCallee(func, alias_map) ==
    IF func.k = "Name" THEN DictGet(alias_map, <<func.id>>, <<func.id>>)
    ELSE IF IsNameChain(func) THEN Dotted(func)
    ELSE DynamicCall

\* The alias map after an import statement: bound name -> X for import X,
\* bound name -> M.A for from M import A.
RECURSIVE AliasesAfter(_, _, _)
AliasesAfter(names, module, alias_map) ==
    IF names = << >> THEN alias_map
    ELSE AliasesAfter(Tail(names), module,
            DictSet(alias_map, BoundName(Head(names)),
                    IF module = None THEN Head(names).name
                    ELSE module \o Head(names).name))

\* The resolved callees of the calls of an expression, a call before the
\* calls inside its callee and arguments.
RECURSIVE CalleesOfExprs(_, _)
RECURSIVE CalleesOfExpr(_, _)
CalleesOfExpr(e, alias_map) ==
    IF e.k = "Call"
    THEN <<ResolvedCallee(e.func, alias_map)>>
         \o CalleesOfExprs(<<e.func>> \o e.args, alias_map)
    ELSE IF e.k \in {"Attribute", "Subscript"}
         THEN CalleesOfExpr(e.value, alias_map)
         ELSE << >>
CalleesOfExprs(es, alias_map) ==
    IF es = << >> THEN << >>
    ELSE CalleesOfExpr(Head(es), alias_map)
         \o CalleesOfExprs(Tail(es), alias_map)

\* The resolved callees of the calls of a body in source order, the alias
\* map following the import statements met on the way.
RECURSIVE CalleesOfBody(_, _)
CalleesOfBody(body, st) ==
    IF body = << >> THEN st
    ELSE LET node == Head(body)
             exprs == IF node.k = "Expr" THEN <<node.value>>
                      ELSE IF node.k = "Assign"
                           THEN <<node.target, node.value>>
                      ELSE IF node.k = "ClassDef" THEN node.bases
                      ELSE << >>
             st1 == [st EXCEPT !.callees =
                        @ \o CalleesOfExprs(exprs, st.alias_map)]
             st2 == IF node.k = "Import"
                    THEN [st1 EXCEPT !.alias_map =
                             AliasesAfter(node.names, None, @)]
                    ELSE IF node.k = "ImportFrom" /\ node.module # None
                         THEN [st1 EXCEPT !.alias_map =
                                  AliasesAfter(node.names, node.module, @)]
                    ELSE IF node.k \in {"ClassDef", "FunctionDef"}
                         THEN CalleesOfBody(node.body, st1)
                    ELSE st1
         IN CalleesOfBody(Tail(body), st2)

\* C17: the targets of the call edges extracted from a file are, in order,
\* the resolved callees of its calls: alias-map value or the name itself for
\* a bare name, the dotted string for a chain of names, the sentinel for
\* every other callee.
C17_CalleeResolution ==
    AfterPhase2 =>
        \A i \in 1..Len(files) : files[i].valid =>
            LET edges == ExtractIntegration(files[i], symbol_table)
                            .integration_edges
                calls == SelectSeq(edges, LAMBDA e : e.type = "call")
            IN [j \in 1..Len(calls) |-> calls[j].target] =
                  CalleesOfBody(files[i].body,
                      [callees |-> << >>, alias_map |-> EmptyDict]).callees

\* The class definitions of a body that have a base, in source order, each
\* with its FQN.
RECURSIVE ClassesWithBases(_, _)
ClassesWithBases(body, scope) ==
    IF body = << >> THEN << >>
    ELSE LET node == Head(body)
         IN (IF node.k = "ClassDef" /\ node.bases # << >>
             THEN <<[fqn |-> scope \o <<node.name>>, node |-> node]>>
             ELSE << >>)
            \o (IF node.k \in {"ClassDef", "FunctionDef"}
                THEN ClassesWithBases(node.body, scope \o <<node.name>>)
                ELSE << >>)
            \o ClassesWithBases(Tail(body), scope)

\* The alias map in force in a file once its import statements have run.
RECURSIVE AliasMapOf(_, _)
AliasMapOf(body, alias_map) ==
    IF body = << >> THEN alias_map
    ELSE LET node == Head(body)
         IN AliasMapOf(Tail(body),
               IF node.k = "Import"
               THEN AliasesAfter(node.names, None, alias_map)
               ELSE IF node.k = "ImportFrom" /\ node.module # None
                    THEN AliasesAfter(node.names, node.module, alias_map)
                    ELSE alias_map)

\* C18: the inheritance edges extracted from a file are, in order, one per
\* class definition with at least one base, with source = the class FQN and
\* one target per base in declaration order: the alias-map value of a
\* simple name or the name itself, the dotted string of an attribute chain.
C18_InheritanceEdges ==
    AfterPhase2 =>
        \A i \in 1..Len(files) : files[i].valid =>
            LET edges == ExtractIntegration(files[i], symbol_table)
                            .integration_edges
                inherits == SelectSeq(edges,
                                LAMBDA e : e.type = "inheritance")
                classes == ClassesWithBases(files[i].body,
                                            ModuleFqn(files[i].path))
                alias_map == AliasMapOf(files[i].body, EmptyDict)
            IN /\ Len(inherits) = Len(classes)
               /\ \A j \in 1..Len(classes) :
                     LET bases == classes[j].node.bases
                         targets == inherits[j].targets
                     IN /\ inherits[j].source = classes[j].fqn
                        /\ Len(targets) = Len(bases)
                        /\ \A l \in 1..Len(bases) :
                              /\ bases[l].k = "Name" =>
                                    targets[l] = DictGet(alias_map,
                                        <<bases[l].id>>, <<bases[l].id>>)
                              /\ (bases[l].k = "Attribute"
                                  /\ IsNameChain(bases[l])) =>
                                    targets[l] = Dotted(bases[l])

----------------------------------------------------------------------------
(* The round trip through the compact encoding.                            *)

Decoded == pc = "decoded"

\* What VerboseFormatter.build_output gives for the data the compact
\* output was built from.
VerboseOutput ==
    v_build_output(symbol_table, symbol_order, integration_edges, metadata,
                   crossroads, critical_paths)

SymbolFields == {"type", "name", "line_range", "docstring", "children",
                 "methods"}

EdgeFields == {"type", "source", "target", "line", "items", "args",
               "access", "targets", "integration_type"}

\* A field of a node or an edge; an absent field reads as None.
FieldOf(r, field) ==
    IF field \in DOMAIN r /\ (field = "docstring" => r[field] # None)
    THEN <<r[field]>> ELSE << >>

SameTree(d, v) ==
    /\ ~d.err /\ ~v.err
    /\ DOMAIN d.nodes = DOMAIN v.nodes
    /\ \A path \in DOMAIN v.nodes : \A field \in SymbolFields :
          FieldOf(d.nodes[path], field) = FieldOf(v.nodes[path], field)

SameEdges(d, v) ==
    /\ Len(d) = Len(v)
    /\ \A i \in 1..Len(v) : \A field \in EdgeFields :
          FieldOf(d[i], field) = FieldOf(v[i], field)

\* C19: the decoded compact output has the logical content of the verbose
\* output of the same data: the same symbols with the same fields in the
\* same tree positions, the same edges with their payload, the same
\* crossroads, critical paths and metadata.
C19_RoundTripLaw ==
    Decoded =>
        /\ ~decoded.err
        /\ SameTree(decoded.codebase_tree, VerboseOutput.codebase_tree)
        /\ SameEdges(decoded.integration_edges,
                     VerboseOutput.integration_edges)
        /\ decoded.global_integration_map.crossroads
              = VerboseOutput.global_integration_map.crossroads
        /\ decoded.global_integration_map.critical_paths
              = VerboseOutput.global_integration_map.critical_paths
        /\ decoded.metadata = VerboseOutput.metadata


EdgesCarryTarget ==
    \A i \in 1..Len(integration_edges) :
        "target" \in DOMAIN integration_edges[i]

CoreFields == {"source", "target", "line", "type"}

MetadataCounts == {"total_integration_points", "total_crossroads",
                  "files_analyzed", "components_found"}

\* What _decode_edges and _decode_metadata give for the compact output.
DecodedEdges == _decode_edges(output.edg, output.idx, << >>)

DecodedMetadata == _decode_metadata(output.md)

SameCore(d, v) ==
    /\ Len(d) = Len(v)
    /\ \A i \in 1..Len(v) : \A field \in CoreFields :
          FieldOf(d[i], field) = FieldOf(v[i], field)

\* C20: when every edge carries a target, the decoded edge list has the
\* length and the order of the original one, each edge with the source,
\* target, line and kind of the original, whether or not the two ends are
\* entries of the symbol table; the decoded metadata counts are the
\* original ones.
C20_EdgeCoreRoundTrip ==
    Decoded /\ EdgesCarryTarget =>
        /\ SameCore(DecodedEdges, integration_edges)
        /\ \A key \in MetadataCounts : DecodedMetadata[key] = metadata[key]

----------------------------------------------------------------------------
(* ComponentIndexer on its own: a sequence of get_or_create_id calls.      *)

MaxCalls == 4

IndexerFqns == {<<"a">>, <<"a", "f">>, <<"b">>}

\* A ComponentIndexer just constructed; log records each call as the pair
\* of its argument and the ID it returned.
InitIndexer ==
    /\ disk = << >>
    /\ files = << >>
    /\ symbol_table = EmptyDict
    /\ symbol_order = << >>
    /\ tree = EmptyDict
    /\ integration_edges = << >>
    /\ crossroads = << >>
    /\ critical_paths = << >>
    /\ metadata = EmptyDict
    /\ pc = "indexer"
    /\ idx = 0
    /\ log = << >>
    /\ context_aware = TRUE
    /\ output = EmptyDict
    /\ decoded = EmptyDict
    /\ indexer = ComponentIndexer
    /\ data = EmptyDict
    /\ abbreviated = EmptyDict
    /\ expanded = EmptyDict

indexer_call ==
    /\ pc = "indexer"
    /\ Len(log) < MaxCalls
    /\ \E fqn \in IndexerFqns :
          /\ indexer' = get_or_create_id(indexer, fqn)
          /\ log' = Append(log, <<fqn, get_id(indexer', fqn)>>)
    /\ UNCHANGED <<context_aware, output, decoded, disk, files, symbol_table,
                   symbol_order, tree, integration_edges, crossroads,
                   critical_paths, metadata, pc, idx, data, abbreviated,
                   expanded>>

SpecIndexer == InitIndexer /\ [][indexer_call]_vars

\* The FQNs of the first j calls.
SeenBy(j) == {log[l][1] : l \in 1..j}

\* The call at which an FQN was first seen.
FirstCall(fqn) == CHOOSE j \in 1..Len(log) :
                     log[j][1] = fqn /\ fqn \notin SeenBy(j - 1)

\* C21: the k-th distinct FQN seen has received ID k, every call with an
\* FQN has returned the ID of its first call, and no ID stands for two
\* FQNs.
C21_IdAssignment ==
    pc = "indexer" =>
        /\ \A j \in 1..Len(log) :
              log[j][2] = Cardinality(SeenBy(FirstCall(log[j][1])))
        /\ \A j, l \in 1..Len(log) :
              log[j][2] = log[l][2] => log[j][1] = log[l][1]
        /\ \A j \in 1..Len(log) : indexer.id_to_fqn[log[j][2]] = log[j][1]

\* Three distinct FQNs seen, the first of them looked up again at the end.
C21_Witness ==
    /\ pc = "indexer"
    /\ Len(log) = 4
    /\ Cardinality(SeenBy(3)) = 3
    /\ log[4][1] = log[1][1]
    /\ log[4][2] = 1

----------------------------------------------------------------------------
(* The compact output.                                                     *)

CompactBuilt == pc \in {"done", "decoded"} /\ context_aware

\* C22: every edge is encoded, in order, as [sourceId, targetId, typeCode,
\* line] with at most a fifth element; the fifth element, the target text,
\* is there exactly when targetId is -1; targetId is -1 only for a target
\* that is no key of the symbol table, and a target that is a key of the
\* symbol table is encoded by its ID.
C22_CompactEdgeEncoding ==
    CompactBuilt =>
        /\ Len(output.edg) = Len(integration_edges)
        /\ \A i \in 1..Len(output.edg) :
              LET e == output.edg[i]
                  target == EdgeGet(integration_edges[i], "target")
              IN /\ Len(e) \in {4, 5}
                 /\ Len(e) = 5 <=> e[2] = -1
                 /\ Len(e) = 5 => e[5] = target
                 /\ e[2] = -1 => target \notin DOMAIN symbol_table
                 /\ target \in DOMAIN symbol_table =>
                       /\ ToString(e[2]) \in DOMAIN output.idx
                       /\ output.idx[ToString(e[2])] = target
                 /\ e[4] = DictGet(integration_edges[i], "line", 0)

\* One edge whose target is a symbol and one whose target is not.
C22_Witness ==
    /\ CompactBuilt
    /\ \E i, j \in 1..Len(output.edg) :
          /\ output.edg[i][2] > 0
          /\ EdgeGet(integration_edges[i], "target") \in DOMAIN symbol_table
          /\ output.edg[j][2] = -1
          /\ Len(output.edg[j]) = 5

----------------------------------------------------------------------------
(* CompactDecoder on its own: decode of a compact map read from a file.    *)

MaxEdges == 3

\* Edge arrays of a compact map: of every length from 0 to 5, with the IDs
\* of the index, the ID -1 and an ID the index lacks.
EdgeArrays ==
    {<< >>, <<2>>, <<2, 1, "cal">>, <<2, 1, "cal", 42>>,
     <<2, -1, "imp", 1, <<"n">>>>, <<3, 1, "inh", 7>>}

DecodeInputs ==
    {[idx |-> [key \in {"1", "2"} |->
                  IF key = "1" THEN <<"a", "f">> ELSE <<"b">>],
      md |-> [tip |-> Len(edg), crs |-> 0, ts |-> "2025-10-16T12:00:00",
              fa |-> 1, cf |-> 2],
      cmp |-> << >>,
      edg |-> edg] :
        edg \in UNION {[1..n -> EdgeArrays] : n \in 0..MaxEdges}}

\* main() about to decode a compact map.
InitDecode ==
    /\ disk = << >>
    /\ files = << >>
    /\ symbol_table = EmptyDict
    /\ symbol_order = << >>
    /\ tree = EmptyDict
    /\ integration_edges = << >>
    /\ crossroads = << >>
    /\ critical_paths = << >>
    /\ metadata = EmptyDict
    /\ pc = "done"
    /\ idx = 0
    /\ log = << >>
    /\ context_aware = TRUE
    /\ output \in DecodeInputs
    /\ decoded = EmptyDict
    /\ indexer = ComponentIndexer
    /\ data = EmptyDict
    /\ abbreviated = EmptyDict
    /\ expanded = EmptyDict

SpecDecode == InitDecode /\ [][main_decode]_vars

\* The edge arrays of the compact map that have at least 4 elements.
WellFormed == SelectSeq(output.edg, LAMBDA e : Len(e) >= 4)

\* C23: decode does not fail on edge arrays with fewer than 4 elements;
\* the decoded edge list holds one edge for each array with at least 4
\* elements, in the order of the arrays.
C23_MalformedEdgesDropped ==
    Decoded =>
        /\ ~decoded.err
        /\ Len(decoded.integration_edges) = Len(WellFormed)
        /\ \A i \in 1..Len(WellFormed) :
              LET e == WellFormed[i]
                  edge == decoded.integration_edges[i]
              IN /\ edge.line = e[4]
                 /\ edge.source = IndexGet(output.idx, e[1])
                 /\ Len(e) > 4 => edge.target = e[5]

\* A short array between two arrays that are decoded.
C23_Witness ==
    /\ Decoded
    /\ Len(output.edg) = 3
    /\ Len(output.edg[1]) = 4
    /\ Len(output.edg[2]) < 4
    /\ Len(output.edg[3]) = 5
    /\ Len(decoded.integration_edges) = 2

----------------------------------------------------------------------------
(* utils/abbreviations.py: the key code table.  A value is a dict (its     *)
(* items in insertion order), a list or a leaf.                            *)

MaxKeys == 2

Leaf(text) == [kind |-> "leaf", items |-> << >>, text |-> text]

JsonDict(items) == [kind |-> "dict", items |-> items, text |-> ""]

JsonList(items) == [kind |-> "list", items |-> items, text |-> ""]

\* KEY_ABBREV, in the order of the dict literal.
KEY_ABBREV ==
    <<
     [key |-> "type", val |-> "t"], [key |-> "name", val |-> "n"],
     [key |-> "parent", val |-> "p"], [key |-> "children", val |-> "ch"],
     [key |-> "line_range", val |-> "lr"], [key |-> "line", val |-> "l"],
     [key |-> "docstring", val |-> "doc"], [key |-> "file_id", val |-> "fid"],
     [key |-> "fqn", val |-> "f"], [key |-> "source", val |-> "s"],
     [key |-> "target", val |-> "tg"], [key |-> "args", val |-> "a"],
     [key |-> "returns", val |-> "ret"], [key |-> "calls", val |-> "c"],
     [key |-> "called_by", val |-> "cb"], [key |-> "reads", val |-> "rd"],
     [key |-> "writes", val |-> "wr"], [key |-> "imports", val |-> "im"],
     [key |-> "imported_by", val |-> "imb"], [key |-> "inherits", val |-> "inh"],
     [key |-> "inherited_by", val |-> "inhb"], [key |-> "file", val |-> "f"],
     [key |-> "path", val |-> "pth"], [key |-> "integration_points", val |-> "ip"],
     [key |-> "usage_count", val |-> "uc"], [key |-> "confidence", val |-> "conf"],
     [key |-> "timestamp", val |-> "ts"], [key |-> "stats", val |-> "st"],
     [key |-> "count", val |-> "c"], [key |-> "relationships", val |-> "r"],
     [key |-> "index", val |-> "idx"], [key |-> "components", val |-> "cmp"],
     [key |-> "edges", val |-> "e"], [key |-> "crossroads", val |-> "crd"],
     [key |-> "critical_paths", val |-> "cp"], [key |-> "version", val |-> "v"],
     [key |-> "metadata", val |-> "meta"]
    >>

\* {v: k for k, v in KEY_ABBREV.items()}: a later verbose key replaces an
\* earlier one of the same abbreviation.
RECURSIVE ReverseOf(_, _)
ReverseOf(table, done) ==
    IF table = << >> THEN done
    ELSE ReverseOf(Tail(table),
                   OrderedSet(done, Head(table).val, Head(table).key))

reverse_abbrev == ReverseOf(KEY_ABBREV, << >>)

RECURSIVE abbreviate_keys(_)
RECURSIVE AbbreviateItems(_, _)
\* The dict comprehension of abbreviate_keys: items in order, a repeated
\* key keeps its place and takes the later value.
AbbreviateItems(items, done) ==
    IF items = << >> THEN done
    ELSE AbbreviateItems(
             Tail(items),
             OrderedSet(done,
                        OrderedGet(KEY_ABBREV, Head(items).key,
                                   Head(items).key),
                        abbreviate_keys(Head(items).val)))

abbreviate_keys(value) ==
    IF value.kind = "dict"
    THEN JsonDict(AbbreviateItems(value.items, << >>))
    ELSE IF value.kind = "list"
    THEN JsonList([j \in 1..Len(value.items) |->
                      abbreviate_keys(value.items[j])])
    ELSE value

RECURSIVE expand_keys(_)
RECURSIVE ExpandItems(_, _)
\* The dict comprehension of expand_keys.
ExpandItems(items, done) ==
    IF items = << >> THEN done
    ELSE ExpandItems(
             Tail(items),
             OrderedSet(done,
                        OrderedGet(reverse_abbrev, Head(items).key,
                                   Head(items).key),
                        expand_keys(Head(items).val)))

expand_keys(value) ==
    IF value.kind = "dict"
    THEN JsonDict(ExpandItems(value.items, << >>))
    ELSE IF value.kind = "list"
    THEN JsonList([j \in 1..Len(value.items) |->
                      expand_keys(value.items[j])])
    ELSE value

\* Verbose keys of KEY_ABBREV that the dictionaries are built from.
VerboseKeys == {"fqn", "type", "name", "line_range", "file"}

\* Values of a key: a string, a dict and a list of dicts.
InnerValues ==
    {Leaf("User")}
    \cup {JsonDict(<<[key |-> k, val |-> Leaf("User")]>>) :
             k \in {"fqn", "name"}}
    \cup {JsonList(<<JsonDict(<<[key |-> "type", val |-> Leaf("class")]>>)>>)}

\* Dicts of 1 to MaxKeys distinct verbose keys, in every insertion order.
KeyDicts ==
    UNION {{JsonDict([j \in 1..n |-> [key |-> ks[j], val |-> vs[j]]]) :
               ks \in {s \in [1..n -> VerboseKeys] :
                          \A i, j \in 1..n : s[i] = s[j] => i = j},
               vs \in [1..n -> InnerValues]} : n \in 1..MaxKeys}

InitKeys ==
    /\ disk = << >>
    /\ files = << >>
    /\ symbol_table = EmptyDict
    /\ symbol_order = << >>
    /\ tree = EmptyDict
    /\ integration_edges = << >>
    /\ crossroads = << >>
    /\ critical_paths = << >>
    /\ metadata = EmptyDict
    /\ pc = "keys"
    /\ idx = 0
    /\ log = << >>
    /\ context_aware = TRUE
    /\ output = EmptyDict
    /\ decoded = EmptyDict
    /\ indexer = ComponentIndexer
    /\ data \in KeyDicts
    /\ abbreviated = EmptyDict
    /\ expanded = EmptyDict

\* abbreviated = abbreviate_keys(data)
call_abbreviate_keys ==
    /\ pc = "keys"
    /\ abbreviated' = abbreviate_keys(data)
    /\ pc' = "abbreviated"
    /\ UNCHANGED <<disk, files, symbol_table, symbol_order, tree,
                   integration_edges, crossroads, critical_paths, metadata,
                   idx, log, context_aware, output, decoded, indexer, data,
                   expanded>>

\* expanded = expand_keys(abbreviated)
call_expand_keys ==
    /\ pc = "abbreviated"
    /\ expanded' = expand_keys(abbreviated)
    /\ pc' = "expanded"
    /\ UNCHANGED <<disk, files, symbol_table, symbol_order, tree,
                   integration_edges, crossroads, critical_paths, metadata,
                   idx, log, context_aware, output, decoded, indexer, data,
                   abbreviated>>

NextKeys == call_abbreviate_keys \/ call_expand_keys

SpecKeys == InitKeys /\ [][NextKeys]_vars

\* Equality of two values as Python compares them: dicts by their keys and
\* the values under them, lists item by item.
RECURSIVE SameData(_, _)
SameData(a, b) ==
    /\ a.kind = b.kind
    /\ a.text = b.text
    /\ IF a.kind = "dict"
       THEN /\ {a.items[j].key : j \in 1..Len(a.items)}
                = {b.items[j].key : j \in 1..Len(b.items)}
            /\ \A j \in 1..Len(a.items) :
                  SameData(a.items[j].val,
                           OrderedGet(b.items, a.items[j].key, a))
       ELSE /\ Len(a.items) = Len(b.items)
            /\ \A j \in 1..Len(a.items) : SameData(a.items[j], b.items[j])

\* C24: expanding the abbreviated form of a dictionary whose keys are
\* verbose names of KEY_ABBREV gives the dictionary back.
C24_KeyTableBidirectional ==
    pc = "expanded" => SameData(expanded, data)

----------------------------------------------------------------------------
\* C25: a run whose file discovery yields no file is aborted: it never
\* gets to the point where build_output has returned an output map.
C25_FatalFailure ==
    Len(files) = 0 => pc \notin {"done", "decoded"}

----------------------------------------------------------------------------
\* The class and function definitions of a body, at any depth: the calls
\* of register_node the visit of the body makes.
RECURSIVE DefinitionCount(_)
DefinitionCount(body) ==
    IF body = << >> THEN 0
    ELSE (IF Head(body).k \in {"ClassDef", "FunctionDef"}
          THEN 1 + DefinitionCount(Head(body).body)
          ELSE 0)
         + DefinitionCount(Tail(body))

\* C26: after phase 1 every definition of a merged file, and its module,
\* has the entry it wrote: the table holds as many entries of the file as
\* the file has definitions, plus one, so no write replaced another.
C26_WriteOnce ==
    AfterPhase1 =>
        \A j \in 1..Len(files) :
            Merged(j) =>
                Cardinality({fqn \in DOMAIN symbol_table :
                                symbol_table[fqn].path = files[j].path})
                    = 1 + DefinitionCount(files[j].body)

----------------------------------------------------------------------------
IsPrefix(s, t) == Len(s) <= Len(t) /\ SubSeq(t, 1, Len(s)) = s

\* C27: from phase 2 on no step changes the symbol table; a step of phase 2
\* only appends to the edge list; the steps after phase 2 leave the edge
\* list as it is.
C27_LifecycleFrame ==
    [][/\ pc \in {"phase2", "phase3", "build_output", "done"} =>
             /\ symbol_table' = symbol_table
             /\ symbol_order' = symbol_order
       /\ pc = "phase2" => IsPrefix(integration_edges, integration_edges')
       /\ pc \in {"phase3", "build_output", "done"} =>
             integration_edges' = integration_edges]_vars

\* A finished run over two files or more with symbols and edges.
C27_Witness ==
    /\ pc = "done"
    /\ Len(files) >= 2
    /\ Len(integration_edges) >= 2
    /\ EdgeGet(integration_edges[1], "source")
          # EdgeGet(integration_edges[Len(integration_edges)], "source")
    /\ Len(symbol_order) >= 2
    /\ Len(crossroads) >= 1

----------------------------------------------------------------------------
\* C28: after phase 1 every file of the list that parses has its module
\* entry in the symbol table.
C28_ModuleEntryKept ==
    AfterPhase1 =>
        \A j \in 1..Len(files) :
            files[j].valid =>
                \E fqn \in DOMAIN symbol_table :
                    /\ symbol_table[fqn].type = "module"
                    /\ symbol_table[fqn].path = files[j].path

----------------------------------------------------------------------------
(* Runs over files that use, as plain names, what another file binds as    *)
(* import aliases.                                                         *)

\* k.py:  Y() / F() / class V(F): pass
File_k ==
    SourceFile(<<"k", ".py">>, TRUE,
        <<Expr(Call(Name("Y"), << >>), 1),
          Expr(Call(Name("F"), << >>), 2),
          ClassDef("V", <<Name("F")>>, <<Pass(4)>>, 3, 4)>>)

AliasCorpus == <<File_c, File_k, File_b>>

AliasFileLists ==
    {<< >>} \cup
    UNION {{[j \in 1..n |-> AliasCorpus[ix[j]]] :
               ix \in {s \in [1..n -> 1..Len(AliasCorpus)] :
                          \A i, j \in 1..n : s[i] = s[j] => i = j}} :
           n \in 1..(IF MaxFiles < Len(AliasCorpus) THEN MaxFiles
                     ELSE Len(AliasCorpus))}

InitAlias ==
    /\ disk \in AliasFileLists
    /\ files \in {<< >>, disk}
    /\ symbol_table = EmptyDict
    /\ symbol_order = << >>
    /\ tree = EmptyDict
    /\ integration_edges = << >>
    /\ crossroads = << >>
    /\ critical_paths = << >>
    /\ metadata = EmptyDict
    /\ pc = "run"
    /\ idx = 0
    /\ log = << >>
    /\ context_aware \in BOOLEAN
    /\ output = EmptyDict
    /\ decoded = EmptyDict
    /\ indexer = ComponentIndexer
    /\ data = EmptyDict
    /\ abbreviated = EmptyDict
    /\ expanded = EmptyDict

SpecAlias == InitAlias /\ [][Next]_vars

\* The edges of a file taken on its own: extracted by an extractor that
\* knows no symbol and has seen no other file.
EdgesOfFileAlone(file) ==
    IF file.valid
    THEN e_visit_Module(file, IntegrationExtractor(EmptyDict, file.path))
            .integration_edges
    ELSE << >>

\* C29: the edges a step of phase 2 adds for a file are the edges of that
\* file taken on its own, whatever files came before it and whatever the
\* symbol table holds.
C29_AliasIsolation ==
    [][pc = "phase2" /\ idx <= Len(files) =>
          integration_edges' =
              integration_edges \o EdgesOfFileAlone(files[idx])]_vars

\* k.py, which calls Y and F, was processed after c.py, which binds Y and
\* F as aliases: the calls of k.py still go to Y and F.
C29_Witness ==
    /\ pc = "phase3"
    /\ files = <<File_c, File_k>>
    /\ \E j \in 1..Len(integration_edges) :
          /\ integration_edges[j].type = "call"
          /\ EdgeGet(integration_edges[j], "source") = <<"k">>
          /\ EdgeGet(integration_edges[j], "target") = <<"Y">>

----------------------------------------------------------------------------
(* One CompactFormatter used for several calls of build_output.            *)

MaxFormats == 3

InitFormatter ==
    /\ disk = << >>
    /\ files = << >>
    /\ symbol_table = EmptyDict
    /\ symbol_order = << >>
    /\ tree = EmptyDict
    /\ integration_edges = << >>
    /\ crossroads = << >>
    /\ critical_paths = << >>
    /\ metadata = EmptyDict
    /\ pc = "formatter"
    /\ idx = 0
    /\ log = << >>
    /\ context_aware = TRUE
    /\ output = EmptyDict
    /\ decoded = EmptyDict
    /\ indexer = ComponentIndexer
    /\ data = EmptyDict
    /\ abbreviated = EmptyDict
    /\ expanded = EmptyDict

\* The table and the edges a run over one file hands to build_output: an
\* empty table when the visit of phase 1 raised.
InputOfFile(file) ==
    LET builder == IF BuildHierarchy(file).err
                   THEN HierarchyBuilder(file.path)
                   ELSE BuildHierarchy(file)
        edges == ExtractIntegration(file, builder.symbol_table)
                    .integration_edges
    IN After(builder,
             After(edges, [symbol_table |-> builder.symbol_table,
                           order |-> builder.order,
                           edges |-> edges]))

\* sample_symbol_table and sample_edges of TestFormatterInterface.
SampleInput ==
    [symbol_table |->
        [fqn \in {<<"myapp">>, <<"myapp", "models">>,
                  <<"myapp", "models", "User">>,
                  <<"myapp", "models", "User", "save">>} |->
            IF fqn = <<"myapp">>
            THEN [type |-> "package", fqn |-> fqn, name |-> <<"myapp">>,
                  line_range |-> <<1, 100>>, docstring |-> None,
                  children |-> [k \in {"models"} |-> <<"myapp", "models">>]]
            ELSE IF fqn = <<"myapp", "models">>
            THEN [type |-> "module", fqn |-> fqn, name |-> <<"models">>,
                  line_range |-> <<1, 100>>, docstring |-> "Data models",
                  path |-> <<"myapp", "/", "models", ".py">>,
                  children |-> [k \in {"User"} |->
                                   <<"myapp", "models", "User">>]]
            ELSE IF fqn = <<"myapp", "models", "User">>
            THEN [type |-> "class", fqn |-> fqn, name |-> <<"User">>,
                  line_range |-> <<10, 50>>, docstring |-> "User model",
                  children |-> EmptyDict,
                  methods |-> [k \in {"save"} |->
                                  <<"myapp", "models", "User", "save">>]]
            ELSE [type |-> "function", fqn |-> fqn, name |-> <<"save">>,
                  line_range |-> <<20, 30>>, docstring |-> "Save user",
                  children |-> EmptyDict]],
     order |-> <<<<"myapp">>, <<"myapp", "models">>,
                 <<"myapp", "models", "User">>,
                 <<"myapp", "models", "User", "save">>>>,
     edges |-> <<[type |-> "call", source |-> <<"myapp", "views", "handler">>,
                  target |-> <<"myapp", "models", "User", "save">>,
                  line |-> 42, integration_type |-> "function_call"],
                 [type |-> "import", source |-> <<"myapp", "views">>,
                  target |-> <<"myapp", "models">>, line |-> 1,
                  integration_type |-> "import_from",
                  items |-> <<<<"User">>>>]>>]

\* The files whose runs hand their table and edges to the formatter: with
\* nested definitions, with imports and classes, one that phase 1 drops and
\* one whose module FQN is empty.
FormatFiles == <<File_n, File_m, File_X, File_dot>>

\* formatter.build_output(symbol_table, edges, metadata) on the formatter
\* of the calls before, with the sample of the tests or with the table and
\* the edges of a run over one file.
format_call ==
    /\ pc = "formatter"
    /\ idx < MaxFormats
    /\ \E j \in 0..Len(FormatFiles) :
          LET input == IF j = 0 THEN SampleInput
                       ELSE InputOfFile(FormatFiles[j])
          IN /\ symbol_table' = input.symbol_table
             /\ symbol_order' = input.order
             /\ integration_edges' = input.edges
             /\ output' = c_build_output(indexer, symbol_table',
                                         symbol_order', integration_edges',
                                         metadata, << >>, << >>)
             /\ indexer' = IndexerAfter(indexer, symbol_table',
                                        symbol_order', integration_edges')
    /\ idx' = idx + 1
    /\ UNCHANGED <<disk, files, tree, crossroads, critical_paths, metadata,
                   pc, log, context_aware, decoded, data, abbreviated,
                   expanded>>

SpecFormatter == InitFormatter /\ [][format_call]_vars

\* build_output has returned a compact map.
Formatted == pc = "formatter" /\ idx >= 1

InIndex(id) == ToString(id) \in DOMAIN output.idx

AllInIndex(comp, field) ==
    field \in DOMAIN comp => \A k \in 1..Len(comp[field]) : InIndex(comp[field][k])

\* The names the decoder makes up for IDs the index lacks.
UnknownNames ==
    {<<"<unknown:" \o ToString(id) \o ">">> : id \in -1..indexer.next_id}

\* C30: in a map build_output returns, on a new formatter or on one used
\* before, every component, parent, child and method ID and every edge ID
\* other than -1 is a key of idx, idx gives a component's ID its own FQN,
\* no two components share an ID, and if every edge has a source ID the
\* decoded edges name no unknown source or target.
C30_ReferentialIntegrity ==
    Formatted =>
        /\ \A j \in 1..Len(output.cmp) :
              LET comp == output.cmp[j]
              IN /\ InIndex(comp.i)
                 /\ output.idx[ToString(comp.i)] = comp.f
                 /\ "p" \in DOMAIN comp => InIndex(comp.p)
                 /\ AllInIndex(comp, "c")
                 /\ AllInIndex(comp, "m")
                 /\ \A k \in 1..Len(output.cmp) :
                       output.cmp[k].i = comp.i => k = j
        /\ \A j \in 1..Len(output.edg) :
              /\ output.edg[j][1] # -1 => InIndex(output.edg[j][1])
              /\ output.edg[j][2] # -1 => InIndex(output.edg[j][2])
        /\ (\A j \in 1..Len(output.edg) : output.edg[j][1] # -1) =>
              LET edges == _decode_edges(output.edg, output.idx, << >>)
              IN \A j \in 1..Len(edges) :
                    /\ edges[j].source \notin UnknownNames
                    /\ edges[j].target \notin UnknownNames

\* The third map of a formatter: it has components with parent, child and
\* method IDs, edges with a target ID, each with a source ID,
\* and its index still holds a name of an earlier call.
C30_Witness ==
    /\ Formatted
    /\ idx = 3
    /\ \E j \in 1..Len(output.cmp) : "p" \in DOMAIN output.cmp[j]
    /\ \E j \in 1..Len(output.cmp) : "c" \in DOMAIN output.cmp[j]
    /\ \E j \in 1..Len(output.cmp) : "m" \in DOMAIN output.cmp[j]
    /\ \E j \in 1..Len(output.edg) : output.edg[j][2] # -1
    /\ \A j \in 1..Len(output.edg) : output.edg[j][1] # -1
    /\ \E key \in DOMAIN output.idx :
          \A j \in 1..Len(output.cmp) : output.cmp[j].f # output.idx[key]

====
